---------------------------- MODULE Spec2Model ----------------------------
(***************************************************************************)
(* A model of the SPIKE hub client (src/spike/hub/hub.py): the COBS        *)
(* framer, the deframing notification callback, the dispatcher with its    *)
(* single request slot, the lock-serialised request coordinator, chunked   *)
(* GATT writes, the connect/disconnect lifecycle and the upload workflow.  *)
(***************************************************************************)
EXTENDS Integers, Sequences, FiniteSets, TLC

(***************************************************************************)
(* Framer constants (tests/bt_spike_listen.py, the fallback COBS helpers   *)
(* that mirror lib.cobs).                                                  *)
(***************************************************************************)
DELIMITER == 2
XOR == 3
MAX_BLOCK == 84
COBS_CODE_OFFSET == DELIMITER
NO_DELIM == 255

Byte == 0..255

XorMaskNone(b) == b
\* x ^ XOR for one byte: XOR = 0b11 flips the two low bits
XorMask(b) == (b \div 4) * 4 + (3 - (b % 4))

\* begin(): remember the code index, append the NO_DELIM placeholder, block = 1
begin(st) ==
    [out |-> Append(st.out, NO_DELIM), code_index |-> Len(st.out) + 1, block |-> 1]

encode_stepZeroOnly(st, b) ==
    LET st1 == IF b > 0
               THEN [st EXCEPT !.out = Append(@, b), !.block = @ + 1]
               ELSE st
    IN  IF b <= 0 \/ st1.block > MAX_BLOCK
        THEN LET st2 == IF b <= 0
                        THEN [st1 EXCEPT !.out[st1.code_index] =
                                 b * MAX_BLOCK + (st1.block + COBS_CODE_OFFSET)]
                        ELSE st1
             IN  begin(st2)
        ELSE st1
encode_stepFinalize(st, b) ==
    LET st1 == IF b > DELIMITER
               THEN [st EXCEPT !.out = Append(@, b), !.block = @ + 1]
               ELSE st
    IN  IF b <= DELIMITER \/ st1.block > MAX_BLOCK
        THEN LET st2 == IF b <= DELIMITER
                        THEN [st1 EXCEPT !.out[st1.code_index] =
                                 b * MAX_BLOCK + (st1.block + COBS_CODE_OFFSET)]
                        ELSE [st1 EXCEPT !.out[st1.code_index] =
                                 st1.block + COBS_CODE_OFFSET]
             IN  begin(st2)
        ELSE st1
\* one iteration of the loop of _encode over payload byte b
encode_step(st, b) ==
    LET st1 == IF b > DELIMITER
               THEN [st EXCEPT !.out = Append(@, b), !.block = @ + 1]
               ELSE st
    IN  IF b <= DELIMITER \/ st1.block > MAX_BLOCK
        THEN LET st2 == IF b <= DELIMITER
                        THEN [st1 EXCEPT !.out[st1.code_index] =
                                 b * MAX_BLOCK + (st1.block + COBS_CODE_OFFSET)]
                        ELSE st1
             IN  begin(st2)
        ELSE st1

\* the loop of _encode over payload[lo..hi], one encode_step per byte in
\* order; the range is folded by halves to keep the evaluation shallow
RECURSIVE encode_from(_, _, _, _)
encode_from(payload, lo, hi, st) ==
    IF lo > hi THEN st
    ELSE IF lo = hi THEN encode_step(st, payload[lo])
    ELSE LET mid == (lo + hi) \div 2
             half == encode_from(payload, lo, mid, st)
         IN  IF half.block < 1 THEN half ELSE encode_from(payload, mid + 1, hi, half)

\* _encode(payload): the stuffed body before masking
encode(payload) ==
    LET st == encode_from(payload, 1, Len(payload),
                          begin([out |-> <<>>, code_index |-> 0, block |-> 0]))
    IN  [st.out EXCEPT ![st.code_index] = st.block + COBS_CODE_OFFSET]

\* cobs_pack(data): mask every byte of the body, append the delimiter
cobs_pack(data) ==
    LET buf == encode(data)
    IN  Append([i \in 1..Len(buf) |-> XorMask(buf[i])], DELIMITER)

\* unesc(code): (v, blk); v = NoValue stands for Python's None
NoValue == 99
unescZeroValue(code) ==
    IF code = NO_DELIM THEN [v |-> NoValue, blk |-> MAX_BLOCK + 1]
    ELSE LET d == code - COBS_CODE_OFFSET
             q == IF d < 0 THEN -1 ELSE d \div MAX_BLOCK
             r == d - q * MAX_BLOCK
         IN  IF r = 0 THEN [v |-> q - 1, blk |-> MAX_BLOCK]
             ELSE [v |-> 0, blk |-> r]
unesc(code) ==
    IF code = NO_DELIM THEN [v |-> NoValue, blk |-> MAX_BLOCK + 1]
    ELSE LET d == code - COBS_CODE_OFFSET
             \* divmod with Python's floor semantics (d is -2, -1 or >= 0)
             q == IF d < 0 THEN -1 ELSE d \div MAX_BLOCK
             r == d - q * MAX_BLOCK
         IN  IF r = 0 THEN [v |-> q - 1, blk |-> MAX_BLOCK]
             ELSE [v |-> q, blk |-> r]

\* the decoding loop of cobs_unpack over raw[i..]: while blk - 1 > 0 the
\* bytes are copied (the run is taken in one slice), then the absorbed value
\* v is emitted and the next code byte read; ok = FALSE when out.append(v)
\* raises (v = -1 is no byte)
RECURSIVE decode_from(_, _, _, _, _)
decode_from(raw, i, v, blk, out) ==
    IF i > Len(raw) \/ Len(out) < 0 \/ v < -1 THEN [ok |-> TRUE, payload |-> out]
    ELSE IF blk - 1 > 0
         THEN LET rest == Len(raw) - i + 1
                  n == IF blk - 1 < rest THEN blk - 1 ELSE rest
              IN  decode_from(raw, i + n, v, blk - n, out \o SubSeq(raw, i, i + n - 1))
    ELSE IF v # NoValue /\ v < 0 THEN [ok |-> FALSE, payload |-> <<>>]
    ELSE LET u == unesc(raw[i])
         IN  decode_from(raw, i + 1, u.v, u.blk,
                         IF v # NoValue THEN Append(out, v) ELSE out)

\* cobs_unpack(frame): frame is non-empty; a leading 0x01 is skipped, the
\* last byte dropped, the rest unmasked and decoded; raw[0] on an empty raw
\* raises
cobs_unpack(frame) ==
    LET start == IF frame[1] = 1 THEN 2 ELSE 1
        body  == SubSeq(frame, start, Len(frame) - 1)
        raw   == [i \in 1..Len(body) |-> XorMask(body[i])]
    IN  IF Len(raw) = 0 THEN [ok |-> FALSE, payload |-> <<>>]
        ELSE LET u == unesc(raw[1])
             IN  decode_from(raw, 2, u.v, u.blk, <<>>)


(***************************************************************************)
(* CRC (lib.crc): CRC-32 of the data zero-padded to a multiple of 4, seeded *)
(* with the previous running value.  A CRC value is kept as its four bytes, *)
(* least significant first, so that it keeps its 32-bit width.              *)
(***************************************************************************)
CRC_ALIGN == 4

Bit(a, i) == (a \div (2 ^ i)) % 2
\* a ^ b for two bytes
Xor8(a, b) ==
      ((Bit(a, 0) + Bit(b, 0)) % 2)       + ((Bit(a, 1) + Bit(b, 1)) % 2) * 2
    + ((Bit(a, 2) + Bit(b, 2)) % 2) * 4   + ((Bit(a, 3) + Bit(b, 3)) % 2) * 8
    + ((Bit(a, 4) + Bit(b, 4)) % 2) * 16  + ((Bit(a, 5) + Bit(b, 5)) % 2) * 32
    + ((Bit(a, 6) + Bit(b, 6)) % 2) * 64  + ((Bit(a, 7) + Bit(b, 7)) % 2) * 128

\* the reflected CRC-32 polynomial 0xEDB88320, least significant byte first
CrcPoly == <<32, 131, 184, 237>>

\* one bit of the shift register: c >> 1, xored with the polynomial when the
\* bit shifted out is set
CrcShift(c) ==
    LET sh == << (c[1] \div 2) + (c[2] % 2) * 128, (c[2] \div 2) + (c[3] % 2) * 128,
                 (c[3] \div 2) + (c[4] % 2) * 128, c[4] \div 2 >>
    IN  IF c[1] % 2 = 1 THEN [i \in 1..4 |-> Xor8(sh[i], CrcPoly[i])] ELSE sh

\* the table of the byte-wise CRC-32: entry n is n run through eight shifts
CrcTable ==
    [n \in Byte |-> CrcShift(CrcShift(CrcShift(CrcShift(
                    CrcShift(CrcShift(CrcShift(CrcShift(<<n, 0, 0, 0>>))))))))]

CrcByte(c, d) ==
    LET e == CrcTable[Xor8(c[1], d)]
    IN  << Xor8(e[1], c[2]), Xor8(e[2], c[3]), Xor8(e[3], c[4]), e[4] >>

RECURSIVE CrcFeed(_, _, _)
CrcFeed(c, data, i) ==
    IF i > Len(data) \/ c[1] < 0 THEN c ELSE CrcFeed(CrcByte(c, data[i]), data, i + 1)

CrcNot(c) == [i \in 1..4 |-> 255 - c[i]]

\* binascii.crc32(data, seed)
crc32(data, seed) == CrcNot(CrcFeed(CrcNot(seed), data, 1))

\* crc(data, seed): pad with zero bytes up to the next multiple of 4
crc(data, seed) ==
    LET remainder == Len(data) % CRC_ALIGN
        padded == IF remainder # 0
                  THEN data \o [i \in 1..(CRC_ALIGN - remainder) |-> 0]
                  ELSE data
    IN  crc32(padded, seed)

CrcZero == <<0, 0, 0, 0>>

(***************************************************************************)
(* Messages (lib.messages): a message is its class ID and its body bytes;  *)
(* serialize puts the ID first, deserialize reads the first byte as the ID *)
(* and fails for an ID without a decoder.                                  *)
(***************************************************************************)
InfoRequestID == 0
InfoResponseID == 1
StartFileUploadRequestID == 12
StartFileUploadResponseID == 13
TransferChunkRequestID == 16
TransferChunkResponseID == 17
ProgramFlowRequestID == 30
ProgramFlowResponseID == 31
DeviceNotificationRequestID == 40
DeviceNotificationResponseID == 41
DeviceNotificationID == 60
ClearSlotRequestID == 70
ClearSlotResponseID == 71

KnownIDs ==
    { InfoRequestID, InfoResponseID, StartFileUploadRequestID, StartFileUploadResponseID,
      TransferChunkRequestID, TransferChunkResponseID, ProgramFlowRequestID,
      ProgramFlowResponseID, DeviceNotificationRequestID, DeviceNotificationResponseID,
      DeviceNotificationID, ClearSlotRequestID, ClearSlotResponseID }

Msg(id, body) == [id |-> id, body |-> body]

serialize(m) == <<m.id>> \o m.body

\* deserialize(payload): payload[0] of an empty payload raises, as does an
\* ID without a decoder
msg_deserialize(payload) ==
    IF Len(payload) = 0 \/ payload[1] \notin KnownIDs
    THEN [ok |-> FALSE, msg |-> Msg(0, <<>>)]
    ELSE [ok |-> TRUE, msg |-> Msg(payload[1], Tail(payload))]

\* the requests of the high-level operations
InfoRequest == Msg(InfoRequestID, <<>>)
DeviceNotificationRequest(period_ms) ==
    Msg(DeviceNotificationRequestID, <<period_ms % 256, period_ms \div 256>>)
ClearSlotRequest(slot) == Msg(ClearSlotRequestID, <<slot>>)
ProgramFlowRequest(stop, slot) == Msg(ProgramFlowRequestID, <<IF stop THEN 1 ELSE 0, slot>>)
StartFileUploadRequest(name, slot, c) ==
    Msg(StartFileUploadRequestID, name \o <<0, slot>> \o c)
TransferChunkRequest(running, chunk) ==
    Msg(TransferChunkRequestID, running \o <<Len(chunk) % 256, Len(chunk) \div 256>> \o chunk)

\* the responses of the hub: InfoResponse carries the two sizing fields, the
\* other responses a status byte (0 acknowledges, anything else is a failure)
InfoResponse(max_packet_size, max_chunk_size) ==
    Msg(InfoResponseID, <<max_packet_size, max_chunk_size>>)
StatusResponse(id, status) == Msg(id, <<status>>)
max_packet_size(m) == IF Len(m.body) >= 1 THEN m.body[1] ELSE 0
max_chunk_size(m) == IF Len(m.body) >= 2 THEN m.body[2] ELSE 0
HubFailure(m) == Len(m.body) >= 1 /\ m.body[1] # 0

(***************************************************************************)
(* MessageDispatcher.  A future is [st, res] with st one of "pending",     *)
(* "result", "cancelled" (cancelled by clear_pending) and "timedout"       *)
(* (cancelled by wait_for); futures are named by the task that created     *)
(* them.  The request slot is NoPending or [id, fut].                      *)
(***************************************************************************)
NoPending == [id |-> -1, fut |-> 0]
NoMsg == Msg(-1, <<>>)
NewFuture == [st |-> "pending", res |-> NoMsg]
NoFuture == [st |-> "none", res |-> NoMsg]
FutDone(f) == f.st # "pending"

DispatchToWaiterAnyID(d, msg) ==
    d.pending # NoPending /\ ~FutDone(d.fut[d.pending.fut])
\* the test of _dispatch: a slot is installed, expects this ID and its
\* future is not done
DispatchToWaiter(d, msg) ==
    /\ d.pending # NoPending
    /\ d.pending.id = msg.id
    /\ ~FutDone(d.fut[d.pending.fut])

dispatchToInbox(d, msg) == [d EXCEPT !.queue = Append(@, msg)]
dispatchOverwrite(d, msg) ==
    IF d.pending # NoPending /\ d.pending.id = msg.id
    THEN [d EXCEPT !.fut[d.pending.fut] = [st |-> "result", res |-> msg]]
    ELSE [d EXCEPT !.queue = Append(@, msg)]
\* _dispatch(msg) on the dispatcher state d = [inbuf, queue, pending, fut]
dispatch(d, msg) ==
    IF DispatchToWaiter(d, msg)
    THEN [d EXCEPT !.fut[d.pending.fut] = [st |-> "result", res |-> msg]]
    ELSE [d EXCEPT !.queue = Append(@, msg)]

\* self._inbuf.index(DELIMITER): 0 when there is none
RECURSIVE IndexOf(_, _, _)
IndexOf(buf, b, i) ==
    IF i > Len(buf) THEN 0 ELSE IF buf[i] = b THEN i ELSE IndexOf(buf, b, i + 1)

RestAfterFrameDropped(buf, i) == <<>>
\* what is left in the buffer once a frame has been cut off it
RestAfterFrame(buf, i) == SubSeq(buf, i + 1, Len(buf))

\* the while loop of on_notify: cut the first frame off the buffer, decode
\* and dispatch it, drop it when decoding raises
RECURSIVE deframe(_)
deframeOnce(d) ==
    LET i == IndexOf(d.inbuf, DELIMITER, 1)
    IN  IF i = 0 THEN d
        ELSE LET d1 == [d EXCEPT !.inbuf = RestAfterFrame(d.inbuf, i)]
                 u == cobs_unpack(SubSeq(d.inbuf, 1, i))
                 m == msg_deserialize(u.payload)
             IN  IF u.ok /\ m.ok
                 THEN [dispatch(d1, m.msg) EXCEPT !.log = Append(@, m.msg)]
                 ELSE d1
deframeClearOnError(d) ==
    LET i == IndexOf(d.inbuf, DELIMITER, 1)
    IN  IF i = 0 THEN d
        ELSE LET d1 == [d EXCEPT !.inbuf = RestAfterFrame(d.inbuf, i)]
                 u == cobs_unpack(SubSeq(d.inbuf, 1, i))
                 m == msg_deserialize(u.payload)
             IN  IF u.ok /\ m.ok
                 THEN deframe([dispatch(d1, m.msg) EXCEPT !.log = Append(@, m.msg)])
                 ELSE [d1 EXCEPT !.inbuf = <<>>]
deframeNoRegistry(d) ==
    LET i == IndexOf(d.inbuf, DELIMITER, 1)
    IN  IF i = 0 THEN d
        ELSE LET d1 == [d EXCEPT !.inbuf = RestAfterFrame(d.inbuf, i)]
                 u == cobs_unpack(SubSeq(d.inbuf, 1, i))
                 m == Msg(u.payload[1], Tail(u.payload))
             IN  IF u.ok /\ u.payload # <<>>
                 THEN deframe([dispatch(d1, m) EXCEPT !.log = Append(@, m)])
                 ELSE deframe(d1)
deframe(d) ==
    LET i == IndexOf(d.inbuf, DELIMITER, 1)
    IN  IF i = 0 THEN d
        ELSE LET frame == SubSeq(d.inbuf, 1, i)
                 d1 == [d EXCEPT !.inbuf = RestAfterFrame(d.inbuf, i)]
                 u == cobs_unpack(frame)
                 m == msg_deserialize(u.payload)
             IN  IF u.ok /\ m.ok
                 THEN deframe([dispatch(d1, m.msg) EXCEPT !.log = Append(@, m.msg)])
                 ELSE deframe(d1)

on_notifyReplace(d, data) == deframe([d EXCEPT !.inbuf = data])
\* on_notify(_sender, data); d.log collects what was handed to _dispatch
on_notify(d, data) == deframe([d EXCEPT !.inbuf = @ \o data])

clear_pending_keep_future(d) == [d EXCEPT !.pending = NoPending]
\* clear_pending()
clear_pending(d) ==
    [d EXCEPT !.fut = IF d.pending # NoPending /\ ~FutDone(d.fut[d.pending.fut])
                      THEN [@ EXCEPT ![d.pending.fut].st = "cancelled"]
                      ELSE @,
              !.pending = NoPending]

cleanupSlotOnly(d) == clear_pending(d)
cleanupWakesGetters(d) ==
    clear_pending([d EXCEPT !.inbuf = <<>>, !.queue = <<>>, !.getter = "idle"])
\* cleanup(): the buffer and the inbox are emptied (get_nowait wakes no
\* caller suspended in queue.get(), d.getter), the slot is cleared
cleanup(d) == clear_pending([d EXCEPT !.inbuf = <<>>, !.queue = <<>>])

recvNewest(d) ==
    [msg |-> d.queue[Len(d.queue)], d |-> [d EXCEPT !.queue = SubSeq(@, 1, Len(@) - 1)]]
\* recv(): queue.get() on a queue that holds a message returns the oldest
recv(d) == [msg |-> Head(d.queue), d |-> [d EXCEPT !.queue = Tail(@)]]

\* queue.get() in recv(), from the test of its loop `while self.empty()`: on
\* an empty queue the caller suspends, else it takes the oldest message
queue_get(q) ==
    IF q = <<>> THEN [getter |-> "blocked", got |-> <<>>, queue |-> q]
    ELSE [getter |-> "idle", got |-> <<Head(q)>>, queue |-> Tail(q)]

\* recv(timeout): wait_for(queue.get(), timeout) before it is called, and once
\* its task has ended with the message got
NoWaitFor == [st |-> "none", got |-> <<>>]
WaitForDone(got) == [st |-> "done", got |-> got]


(***************************************************************************)
(* Bounds of the model.                                                    *)
(***************************************************************************)
MaxOps == 2
MaxNotify == 1
WireOps == 3
WireNotify == 1
MaxData == 5
UploadOps == 1
UploadNotify == 5
MaxPieces == 2
MaxCuts == 3

\* two tasks call the hub concurrently
Tasks == {1, 2}

\* two coroutines call connect() and disconnect() concurrently
Callers == {1, 2}

\* the BleakClient objects that can exist at a time; NoClient is None
Clients == {1, 2}
NoClient == 0

(***************************************************************************)
(* State.                                                                  *)
(***************************************************************************)
VARIABLES
    client,          \* BLEConnection.client: NoClient (None) or a BleakClient
    links,           \* for each BleakClient its link: up (client.is_connected)
                     \* and cb (on_notify is its TX callback); a client that
                     \* is not connected and that nothing references does
                     \* not exist (any more)
    held,            \* for each caller of connect() or disconnect() the
                     \* BleakClient its call works on: the local variable
                     \* `client` of connect(), the client whose stop_notify()
                     \* or disconnect() is awaited in disconnect(); NoClient
                     \* when the caller is in no call
    resolved,        \* _rx_uuid, _tx_uuid and _rx_props have been set by a connect()
    notify_started,  \* BLEConnection._notify_started
    connPc,          \* where the connect() or disconnect() of each caller is
                     \* suspended: "idle" (in no call), "c_open" (in
                     \* find_device or client.connect()), "c_notify"
                     \* (start_notify), "c_settle" (the sleep), "d_stop"
                     \* (stop_notify), "d_close" (client.disconnect())
    connErr,         \* history: what the connect() or disconnect() that ended
                     \* last raised, "none" if it returned
    inbuf,           \* MessageDispatcher._inbuf
    queue,           \* MessageDispatcher._queue
    pending,         \* MessageDispatcher._pending
    fut,             \* the future each task created for its request
    lock,            \* RequestManager._lock: the holding task, 0 when free
    waiters,         \* the tasks suspended in lock.acquire(), in order
    info,            \* ProgramManager.info
    pc,              \* where each task is suspended
    cur,             \* the send_message / send_request call each task is in
    off,             \* the offset of the next segment write_frame writes
    prog,            \* the high-level operation each task is in
    outcome,         \* how the last high-level operation of each task ended
    lastWrite,       \* history: the last write_gatt_char call
    outbox,          \* history: the messages the running (or last) high-level
                     \* operation of each task has passed to write_frame's loop
    dispatched,      \* history: the messages the last on_notify handed to _dispatch
    rxAll,           \* history: the bytes notified since the buffer was last reset
    dispAll,         \* history: the messages dispatched since then
    nops,            \* number of high-level operations started
    nnotify,         \* number of notifications delivered
    hubStream,       \* the bytes the hub has begun to send and not yet notified
    env,             \* the environment: the operations each task may start (menu),
                     \* the kind of byte blocks the hub may send (frames), whether a block
                     \* may be cut into several notifications (cuts), whether
                     \* the hub sends a frame only in answer to a waiting
                     \* request (solicited), the coroutines that call
                     \* connect() and disconnect() (callers), the BleakClient
                     \* objects that can exist at a time (clients), whether
                     \* connect() is called while self.client is set
                     \* (reconnect), which calls of the BLE stack the
                     \* scenario lets raise on a link that is up (faults:
                     \* "close" for client.disconnect()), which histories
                     \* are recorded (trace: "writes" for lastWrite, "sent"
                     \* for outbox, "stream" for rxAll and dispAll, "link"
                     \* for connErr), and the numbers of operations and
                     \* notifications explored (ops, notifies)
    calc,            \* the last call of a pure function (the framer, the CRC,
                     \* the resolver) made outside the hub object, with its
                     \* arguments and results
    recvd,           \* the messages that recv() has returned, in order
    bt,              \* the lego_spike Bluetooth object: its attributes, the
                     \* state of its link and the result of the last call
    waitfor,         \* a call recv(timeout) in wait_for: st is "none" (no such
                     \* call), "created" (wait_for has created the task of
                     \* queue.get(), which has not run), "running" (that task
                     \* is the one suspended in queue.get(), see getter) or
                     \* "done" (the task has ended with the message got, which
                     \* has left the inbox; the caller has not run yet)
    getter           \* the coroutine suspended in queue.get(), called by
                     \* recv() or by the task of wait_for: "idle" (none),
                     \* "blocked" (waiting for a message) or "woken" (a put
                     \* has woken it and it has not run yet)

connVars == <<client, links, held, resolved, notify_started, connPc, connErr>>
dispVars == <<inbuf, queue, pending, fut>>
taskVars == <<lock, waiters, info, pc, cur, off, prog, outcome, lastWrite, outbox, nops>>
envVars == <<dispatched, rxAll, dispAll, nnotify, hubStream, env, calc, recvd, bt, waitfor,
            getter>>
vars == <<connVars, dispVars, taskVars, envVars>>

\* a BleakClient that is not connected, the state of a new one
NoLink == [up |-> FALSE, cb |-> FALSE]

\* something holds the BleakClient k: self.client or a running call
Referenced(k) == k = client \/ \E c \in Callers : held[c] = k

\* the BleakClient k exists: it is referenced, or its link is up
InUse(k) == links[k].up \/ Referenced(k)

\* the object BleakClient(target) creates: the first that is not in use
NewClient == CHOOSE k \in env.clients : ~InUse(k) /\ \A j \in env.clients : j < k => InUse(j)

\* BLEConnection.is_connected: self.client is not None and is connected
linkUp == client # NoClient /\ links[client].up

\* on_notify is the TX callback of self.client
subscribed == client # NoClient /\ links[client].cb

\* a GATT link is up on a client that nothing references
leaked == \E k \in Clients : links[k].up /\ ~Referenced(k)

NoInfo == NoMsg
NoReq == [kind |-> "none", msg |-> NoMsg, exp |-> -1, frame |-> <<>>, info |-> NoInfo, op |-> 0]
\* op numbers the high-level operations
NoWrite == [t |-> 0, op |-> 0, fr |-> 0, off |-> 0, seg |-> <<>>, len |-> 0,
            high |-> "none", cached |-> NoInfo]
Idle == [op |-> "idle", phase |-> "", slot |-> 0, name |-> <<>>, data |-> <<>>,
         max_chunk |-> 0, pos |-> 0, running |-> CrcZero]
\* exp is the message ID the last request of the operation waited for
NoCalc == [fn |-> "none"]
NoOutcome == [out |-> "none", res |-> NoMsg, exp |-> -1]

\* the part of the state the steps of a task read and write, as one record
TaskState ==
    [ client |-> client, linkUp |-> linkUp, resolved |-> resolved,
      pending |-> pending, fut |-> fut, lock |-> lock, waiters |-> waiters,
      info |-> info, pc |-> pc, cur |-> cur, off |-> off, prog |-> prog,
      outcome |-> outcome, lastWrite |-> lastWrite, outbox |-> outbox, nops |-> nops ]

(***************************************************************************)
(* BLEConnection.write_frame                                               *)
(***************************************************************************)
ConnectedAlways(s) == TRUE
\* the guard of write_frame: a client, connected, with a resolved RX
Connected(s) == s.client # NoClient /\ s.linkUp /\ s.resolved

\* packet_size = getattr(info, "max_packet_size", None) or len(frame)
PacketSize(inf, frame) ==
    IF inf # NoInfo /\ max_packet_size(inf) # 0 THEN max_packet_size(inf) ELSE Len(frame)

SegmentOneMore(frame, o, psize) ==
    SubSeq(frame, o + 1, IF o + psize + 1 < Len(frame) THEN o + psize + 1 ELSE Len(frame))
\* frame[off:off + packet_size]
Segment(frame, o, psize) ==
    SubSeq(frame, o + 1, IF o + psize < Len(frame) THEN o + psize ELSE Len(frame))

\* one call of client.write_gatt_char by task t, for the segment at offset o;
\* lastWrite names the frame (the fr-th of operation op), the operation and
\* the InfoResponse cached at that moment
WriteSegment(s, t, o) ==
    LET c == s.cur[t]
        psize == PacketSize(c.info, c.frame)
    IN  [s EXCEPT !.lastWrite = IF "writes" \in env.trace
                                THEN [t |-> t, op |-> c.op, fr |-> Len(s.outbox[t]),
                                      off |-> o, seg |-> Segment(c.frame, o, psize),
                                      len |-> Len(c.frame), high |-> s.prog[t].op,
                                      cached |-> s.info]
                                ELSE @,
                  !.off[t] = o + psize,
                  !.pc[t] = "writing"]

(***************************************************************************)
(* RequestManager                                                          *)
(***************************************************************************)
LockFreeAlways(s) == TRUE
\* asyncio.Lock: acquire() returns at once when the lock is free
LockFree(s) == s.lock = 0

ReleaseLockUnfair(s) == [s EXCEPT !.lock = 0]
\* release(): the lock passes to the first waiter, if any
ReleaseLock(s) ==
    IF s.waiters = <<>> THEN [s EXCEPT !.lock = 0]
    ELSE [s EXCEPT !.lock = Head(s.waiters), !.waiters = Tail(s.waiters)]

\* set_pending refuses when a slot is installed whose future is not done
SetPendingBusy(s) == s.pending # NoPending /\ ~FutDone(s.fut[s.pending.fut])

\* clear_pending() on the task state
ClearPending(s) ==
    LET d == clear_pending([inbuf |-> <<>>, queue |-> <<>>, pending |-> s.pending,
                            fut |-> s.fut, log |-> <<>>])
    IN  [s EXCEPT !.pending = d.pending, !.fut = d.fut]

LeaveRequestHoldingLock(s) == ClearPending(s)
LeaveRequestKeepSlot(s) == ReleaseLock(s)
\* what the finally clause and the exit of `async with` do when send_request
\* is left
LeaveRequest(s) == ReleaseLock(ClearPending(s))

RECURSIVE Finish(_, _, _, _)

\* send_message(message, info): pack, then write_frame up to its first
\* suspension; a request whose write_frame raises is left through finally
SendMessage(s, t) ==
    LET c == s.cur[t]
    IN  IF ~Connected(s)
        THEN Finish(IF c.kind = "request" THEN LeaveRequest(s) ELSE s, t, "notconnected", NoMsg)
        ELSE WriteSegment([s EXCEPT !.outbox[t] = IF "sent" \in env.trace THEN Append(@, c.msg) ELSE @],
                          t, 0)

EnterRequestNoSlot(s, t) == SendMessage([s EXCEPT !.fut[t] = NewFuture], t)
\* send_request once the lock is held: create the future, install the slot,
\* send the message
EnterRequest(s, t) ==
    IF SetPendingBusy(s)
    THEN Finish(ReleaseLock(s), t, "busy", NoMsg)
    ELSE SendMessage([s EXCEPT !.fut[t] = NewFuture,
                               !.pending = [id |-> s.cur[t].exp, fut |-> t]], t)

\* send_request(message, response_type, timeout, info) up to its first suspension
BeginRequest(s, t, msg, exp, inf) ==
    LET c == [kind |-> "request", msg |-> msg, exp |-> exp,
              frame |-> cobs_pack(serialize(msg)), info |-> inf, op |-> s.cur[t].op]
        s1 == [s EXCEPT !.cur[t] = c]
    IN  IF LockFree(s)
        THEN EnterRequest([s1 EXCEPT !.lock = t], t)
        ELSE [s1 EXCEPT !.waiters = Append(@, t), !.pc[t] = "lockwait"]

\* RequestManager.send_message called by Hub.send_message
BeginSend(s, t, msg, inf) ==
    SendMessage([s EXCEPT !.cur[t] = [kind |-> "send", msg |-> msg, exp |-> -1,
                                      frame |-> cobs_pack(serialize(msg)), info |-> inf,
                                      op |-> s.cur[t].op]], t)

(***************************************************************************)
(* ProgramManager                                                          *)
(***************************************************************************)
\* the high-level operation of task t ends: it returns res or raises out
\* (the future of its last request is dropped with it)
Done(s, t, out, res) ==
    [s EXCEPT !.pc[t] = "idle", !.cur[t] = NoReq, !.prog[t] = Idle, !.off[t] = 0,
              !.fut[t] = NoFuture,
              !.outcome[t] = [out |-> out, res |-> res, exp |-> s.cur[t].exp]]

NextRunningFromZero(chunk, running) == crc(chunk, CrcZero)
NextRunningKeep(chunk, running) == running
\* running = crc(chunk, running)
NextRunning(chunk, running) == crc(chunk, running)

\* the chunk data[off:off + max_chunk]
Chunk(data, o, max_chunk) ==
    SubSeq(data, o + 1, IF o + max_chunk < Len(data) THEN o + max_chunk ELSE Len(data))

\* start_program(slot)
StartProgram(s, t, slot) ==
    BeginRequest(s, t, ProgramFlowRequest(FALSE, slot), ProgramFlowResponseID, NoInfo)

\* the loop of upload_program at offset prog.pos: the next TransferChunk, or
\* start_program after the last chunk
UploadNext(s, t) ==
    LET p == s.prog[t]
    IN  IF p.pos < Len(p.data)
        THEN LET chunk == Chunk(p.data, p.pos, p.max_chunk)
                 running == NextRunning(chunk, p.running)
             IN  BeginRequest([s EXCEPT !.prog[t].phase = "chunk",
                                        !.prog[t].pos = p.pos + p.max_chunk,
                                        !.prog[t].running = running],
                              t, TransferChunkRequest(running, chunk),
                              TransferChunkResponseID, s.info)
        ELSE StartProgram([s EXCEPT !.prog[t].phase = "flow"], t, p.slot)

UploadStartUnitChunk(s, t) ==
    LET p == s.prog[t]
    IN  BeginRequest([s EXCEPT !.prog[t].phase = "start",
                               !.prog[t].max_chunk = 1,
                               !.prog[t].pos = 0, !.prog[t].running = CrcZero],
                     t, StartFileUploadRequest(p.name, p.slot, crc(p.data, CrcZero)),
                     StartFileUploadResponseID, s.info)
\* upload_program after get_info: max_chunk and total_crc, then StartFileUpload
UploadStart(s, t) ==
    LET p == s.prog[t]
    IN  BeginRequest([s EXCEPT !.prog[t].phase = "start",
                               !.prog[t].max_chunk = max_chunk_size(s.info),
                               !.prog[t].pos = 0, !.prog[t].running = CrcZero],
                     t, StartFileUploadRequest(p.name, p.slot, crc(p.data, CrcZero)),
                     StartFileUploadResponseID, s.info)

UploadContinueOnError(s, t, out, res) ==
    LET p == s.prog[t]
    IN  IF out # "response" /\ p.phase # "chunk" THEN Done(s, t, out, res)
        ELSE IF p.phase = "info" THEN UploadStart([s EXCEPT !.info = res], t)
        ELSE IF p.phase = "start"
             THEN IF p.max_chunk = 0 THEN Done(s, t, "valueerror", NoMsg)
                  ELSE UploadNext(s, t)
        ELSE IF p.phase = "chunk" THEN UploadNext(s, t)
        \* start_program has returned: upload_program returns None
        ELSE Done(s, t, out, NoMsg)

\* upload_program resumed by the end of one of its requests: an exception
\* ends it, a response of whatever content lets it go on; the response of
\* start_program is not returned
UploadContinue(s, t, out, res) ==
    LET p == s.prog[t]
    IN  IF out # "response" THEN Done(s, t, out, res)
        ELSE IF p.phase = "info" THEN UploadStart([s EXCEPT !.info = res], t)
        ELSE IF p.phase = "start"
             THEN IF p.max_chunk = 0 THEN Done(s, t, "valueerror", NoMsg)
                  ELSE UploadNext(s, t)
        ELSE IF p.phase = "chunk" THEN UploadNext(s, t)
        \* start_program has returned: upload_program returns None
        ELSE Done(s, t, out, NoMsg)

\* the send_message / send_request call of task t returns res or raises out
Finish(s, t, out, res) ==
    IF s.prog[t].op = "upload" THEN UploadContinue(s, t, out, res)
    ELSE IF s.prog[t].op = "get_info" /\ out = "response"
         THEN Done([s EXCEPT !.info = res], t, out, res)
    ELSE Done(s, t, out, res)

\* the arguments the tasks pass to the operations
Slot == 0
ProgramName == <<109>>
Period == 50

\* task t calls the high-level operation op (data is the program of an upload)
Call(s, t, op, data) ==
    LET s1 == [s EXCEPT !.nops = @ + 1, !.outbox[t] = <<>>,
                        !.cur[t] = [NoReq EXCEPT !.op = s.nops + 1],
                        !.prog[t] = [Idle EXCEPT !.op = op, !.slot = Slot,
                                                 !.name = ProgramName, !.data = data]]
    IN  CASE op = "get_info" ->
               BeginRequest(s1, t, InfoRequest, InfoResponseID, NoInfo)
          [] op = "enable_notifications" ->
               BeginRequest(s1, t, DeviceNotificationRequest(Period),
                            DeviceNotificationResponseID, NoInfo)
          [] op = "clear_slot" ->
               BeginRequest(s1, t, ClearSlotRequest(Slot), ClearSlotResponseID, NoInfo)
          [] op = "start_program" -> StartProgram(s1, t, Slot)
          [] op = "stop_program" ->
               BeginRequest(s1, t, ProgramFlowRequest(TRUE, Slot), ProgramFlowResponseID, NoInfo)
          [] op = "send_request" ->
               \* Hub.send_request passes program_manager.info
               BeginRequest(s1, t, ClearSlotRequest(Slot), ClearSlotResponseID, s.info)
          [] op = "send_message" ->
               \* Hub.send_message passes program_manager.info
               BeginSend(s1, t, DeviceNotificationRequest(Period), s.info)
          [] op = "upload" ->
               IF s.info = NoInfo
               THEN BeginRequest([s1 EXCEPT !.prog[t].phase = "info"], t,
                                 InfoRequest, InfoResponseID, NoInfo)
               ELSE UploadStart(s1, t)


(***************************************************************************)
(* Inputs.                                                                 *)
(***************************************************************************)
\* the InfoResponses a hub may give: (max_packet_size, max_chunk_size)
SmallInfo == InfoResponse(2, 4)
LargeInfo == InfoResponse(20, 8)
UploadInfo == InfoResponse(20, 4)

Frame(m) == cobs_pack(serialize(m))

\* the programs a task may upload
Programs == {[i \in 1..n |-> IF i % 3 = 0 THEN 0 ELSE 96 + i] : n \in 0..MaxData}

(***************************************************************************)
(* The blocks of bytes a hub sends.                                        *)
(***************************************************************************)
\* the responses to get_info and clear_slot
SpecHubMessages ==
    { SmallInfo, StatusResponse(ClearSlotResponseID, 0) }

\* a well-formed frame whose payload starts with an ID without a decoder
UnknownFrame == cobs_pack(<<170>>)

\* four frames the hub sends in one notification, the second of an unknown ID
Coalesced ==
    Frame(Msg(DeviceNotificationID, <<>>)) \o UnknownFrame \o Frame(SmallInfo)
    \o Frame(LargeInfo)

\* the responses to the requests of an upload, acknowledging or refusing
UploadHubMessages ==
    { UploadInfo,
      StatusResponse(StartFileUploadResponseID, 0), StatusResponse(StartFileUploadResponseID, 1),
      StatusResponse(TransferChunkResponseID, 0), StatusResponse(TransferChunkResponseID, 1),
      StatusResponse(ProgramFlowResponseID, 0) }

\* a notification frame, a response frame whose payload holds bytes that the
\* framer escapes, a frame with an ID that has no decoder, a frame that
\* cobs_unpack cannot decode (nothing before its delimiter)
Pieces ==
    { Frame(Msg(DeviceNotificationID, <<170>>)), Frame(SmallInfo), UnknownFrame,
      <<DELIMITER>> }

\* the concatenations of 1..n pieces
RECURSIVE Blocks(_)
Blocks(n) ==
    IF n = 0 THEN {<<>>}
    ELSE {b \o p : b \in Blocks(n - 1), p \in Pieces} \cup (Blocks(n - 1) \ {<<>>})

ResponseBlocks == {Frame(m) : m \in SpecHubMessages} \cup {Coalesced, UnknownFrame}
UploadBlocks == {Frame(m) : m \in UploadHubMessages}
PieceBlocks == Blocks(MaxPieces)

\* the blocks the hub of kind env.frames may begin to send
HubBlocks(kind) ==
    CASE kind = "responses" -> ResponseBlocks
      [] kind = "upload" -> UploadBlocks
      [] kind = "none" -> {}

(***************************************************************************)
(* lego_spike.Bluetooth.  The object is its client handle (client), the    *)
(* links of the BleakClient objects connect() has created (links: up, and  *)
(* the number of callbacks that start_notify has installed and neither     *)
(* stop_notify nor the end of the link has removed, subs), the instance    *)
(* attributes among _notify_started, _inbuf and _queue that have been      *)
(* assigned (attrs), the value of _notify_started, where each caller is    *)
(* suspended (pc: "idle", "discover", "connect" or "cleanup" in connect(), *)
(* "start_notify" in start(), "stop_notify" or "close" in disconnect()),   *)
(* the BleakClient the suspended call of each caller works on (held), and  *)
(* the call that ended last with the exception it raised ("none" when it   *)
(* returned); n counts the calls that have ended.                          *)
(***************************************************************************)
\* two callers use the object concurrently
BtCallers == {1, 2}

\* the BleakClient objects that can exist at a time
BtClients == {1, 2}

\* __init__ assigns timeout, client and target_uuid
Bluetooth_init ==
    [client |-> NoClient, links |-> [k \in BtClients |-> [up |-> FALSE, subs |-> 0]],
     held |-> [c \in BtCallers |-> NoClient], attrs |-> {},
     notify_started |-> FALSE, pc |-> [c \in BtCallers |-> "idle"],
     call |-> "none", err |-> "none", n |-> 0]

\* the BleakClient objects that do not exist: not connected and referenced
\* neither by self.client nor by a running call
Bluetooth_free(b) ==
    {k \in BtClients : /\ ~b.links[k].up /\ b.client # k
                       /\ \A c \in BtCallers : b.held[c] # k}

\* the call `call` of caller c ends with the exception err
Bluetooth_ends(b, c, call, err) ==
    [b EXCEPT !.pc[c] = "idle", !.held[c] = NoClient, !.call = call, !.err = err,
              !.n = @ + 1]

\* connect() up to its first await: BleakScanner.discover is called
Bluetooth_connect(b, c) == [b EXCEPT !.pc[c] = "discover"]

\* connect() after discover: it raised BleakDBusError ("dbuserror", turned
\* into the RuntimeError Bluetooth is not enabled) or another exception
\* ("scanerror", which is not caught and leaves connect() as it is), no
\* device advertises the service ("nodevice"), or a BleakClient is created
\* for the first that does and client.connect() is called ("found")
Bluetooth_discovered(b, c, r) ==
    IF r = "found"
    THEN [b EXCEPT !.pc[c] = "connect",
                   !.held[c] = CHOOSE k \in Bluetooth_free(b) :
                                  \A j \in Bluetooth_free(b) : k <= j]
    ELSE Bluetooth_ends(b, c, "connect",
                        IF r = "dbuserror" THEN "notenabled"
                        ELSE IF r = "scanerror" THEN "scanfailed" ELSE "nodevice")

\* connect() after client.connect(): the client is connected and is stored
\* ("ok"), it is not connected ("down"), or client.connect() raised and
\* client.disconnect() is called ("raised")
Bluetooth_connected(b, c, r) ==
    IF r = "ok"
    THEN Bluetooth_ends([b EXCEPT !.client = b.held[c], !.links[b.held[c]].up = TRUE],
                        c, "connect", "none")
    ELSE IF r = "down" THEN Bluetooth_ends(b, c, "connect", "nodevice")
    ELSE [b EXCEPT !.pc[c] = "cleanup"]

\* connect() after the client.disconnect() of its except clause: the loop
\* is left and No device found is raised, or the exception of
\* client.disconnect() leaves connect()
Bluetooth_cleaned(b, c, ok) ==
    Bluetooth_ends(b, c, "connect", IF ok THEN "nodevice" ELSE "closefailed")

\* start() up to its await: the two tests, then start_notify is called on
\* self.client
Bluetooth_start(b, c) ==
    IF b.client = NoClient \/ ~b.links[b.client].up
    THEN Bluetooth_ends(b, c, "start", "notconnected")
    ELSE IF "_notify_started" \notin b.attrs THEN Bluetooth_ends(b, c, "start", "attributeerror")
    ELSE IF b.notify_started THEN Bluetooth_ends(b, c, "start", "none")
    ELSE [b EXCEPT !.pc[c] = "start_notify", !.held[c] = b.client]

\* start() after its await: start_notify has returned (ok) and the flag is
\* set, or it has raised
Bluetooth_started(b, c, ok) ==
    IF ok
    THEN Bluetooth_ends([b EXCEPT !.links[b.held[c]].subs = @ + 1,
                                  !.notify_started = TRUE,
                                  !.attrs = @ \cup {"_notify_started"}],
                        c, "start", "none")
    ELSE Bluetooth_ends(b, c, "start", "startfailed")

\* the finally clause of disconnect(), entered with the exception err
Bluetooth_finally(b, c, err) ==
    Bluetooth_ends([b EXCEPT !.client = NoClient,
                             !.attrs = @ \cup {"_notify_started"},
                             !.notify_started = FALSE],
                   c, "disconnect",
                   IF ~({"_inbuf", "_queue"} \subseteq b.attrs) THEN "attributeerror"
                   ELSE err)

\* disconnect() at `if self.client.is_connected`: with self.client None it
\* raises AttributeError, with the link up client.disconnect() is called
\* on self.client
Bluetooth_close(b, c) ==
    IF b.client = NoClient THEN Bluetooth_finally(b, c, "attributeerror")
    ELSE IF b.links[b.client].up THEN [b EXCEPT !.pc[c] = "close", !.held[c] = b.client]
    ELSE Bluetooth_finally(b, c, "none")

\* disconnect() up to its first await
Bluetooth_disconnect(b, c) ==
    IF b.client = NoClient THEN Bluetooth_ends(b, c, "disconnect", "none")
    ELSE IF "_notify_started" \notin b.attrs THEN Bluetooth_finally(b, c, "attributeerror")
    ELSE IF b.notify_started THEN [b EXCEPT !.pc[c] = "stop_notify", !.held[c] = b.client]
    ELSE Bluetooth_close(b, c)

\* disconnect() after stop_notify has returned (ok) or raised (swallowed)
Bluetooth_stopped(b, c, ok) ==
    Bluetooth_close([b EXCEPT !.links[b.held[c]].subs = IF ok THEN 0 ELSE @], c)

\* disconnect() after client.disconnect() has returned (ok) or raised
Bluetooth_closed(b, c, ok) ==
    IF ok
    THEN Bluetooth_finally([b EXCEPT !.links[b.held[c]] = [up |-> FALSE, subs |-> 0]],
                           c, "none")
    ELSE Bluetooth_finally(b, c, "closefailed")

(***************************************************************************)
(* Init: the state after Hub() has been constructed.                       *)
(***************************************************************************)
InitCommon ==
    /\ client = NoClient
    /\ links = [k \in Clients |-> NoLink]
    /\ held = [c \in Callers |-> NoClient]
    /\ resolved = FALSE /\ notify_started = FALSE
    /\ connPc = [c \in Callers |-> "idle"] /\ connErr = "none"
    /\ inbuf = <<>> /\ queue = <<>> /\ pending = NoPending
    /\ fut = [t \in Tasks |-> NoFuture]
    /\ lock = 0 /\ waiters = <<>> /\ info = NoInfo
    /\ pc = [t \in Tasks |-> "idle"]
    /\ cur = [t \in Tasks |-> NoReq]
    /\ off = [t \in Tasks |-> 0]
    /\ prog = [t \in Tasks |-> Idle]
    /\ outcome = [t \in Tasks |-> NoOutcome]
    /\ lastWrite = NoWrite /\ outbox = [t \in Tasks |-> <<>>] /\ dispatched = <<>>
    /\ rxAll = <<>> /\ dispAll = <<>>
    /\ nops = 0 /\ nnotify = 0
    /\ calc = NoCalc
    /\ recvd = <<>>
    /\ bt = Bluetooth_init
    /\ waitfor = NoWaitFor
    /\ getter = "idle"

(***************************************************************************)
(* The steps of the tasks: each runs a coroutine from one suspension point *)
(* to the next.                                                            *)
(***************************************************************************)
Apply(s) ==
    /\ pending' = s.pending /\ fut' = s.fut /\ lock' = s.lock /\ waiters' = s.waiters
    /\ info' = s.info /\ pc' = s.pc /\ cur' = s.cur /\ off' = s.off /\ prog' = s.prog
    /\ outcome' = s.outcome /\ lastWrite' = s.lastWrite /\ outbox' = s.outbox /\ nops' = s.nops
    /\ UNCHANGED <<connVars, inbuf, queue, envVars>>

\* a task calls a high-level operation
StartOp(t) ==
    /\ pc[t] = "idle"
    /\ nops < env.ops
    /\ \E op \in env.menu[t] :
         \E data \in (IF op = "upload" THEN Programs ELSE {<<>>}) :
            Apply(Call(TaskState, t, op, data))

\* lock.acquire() returns in a task that waited for the lock
LockGranted(t) ==
    /\ pc[t] = "lockwait"
    /\ lock = t
    /\ Apply(EnterRequest(TaskState, t))

\* the exception path of write_frame's loop in task t
WriteFailed(s, t) ==
    Finish(IF s.cur[t].kind = "request" THEN LeaveRequest(s) ELSE s, t, "writeerror", NoMsg)

\* write_gatt_char returns or raises in task t (the BLE stack may raise on
\* any write, write_frame handles nothing): after a return the next segment,
\* or the end of write_frame (send_message returns; send_request awaits its
\* future).  With the client gone or its link down the next write raises.
WriteDone(t) ==
    /\ pc[t] = "writing"
    /\ \E raised \in BOOLEAN :
         LET s == TaskState
         IN  IF raised THEN Apply(WriteFailed(s, t))
             ELSE IF off[t] < Len(cur[t].frame)
             THEN IF linkUp THEN Apply(WriteSegment(s, t, off[t]))
                  ELSE Apply(WriteFailed(s, t))
             ELSE IF cur[t].kind = "send" THEN Apply(Finish(s, t, "sent", NoMsg))
             ELSE Apply([s EXCEPT !.pc[t] = "wait"])

\* the timeout of wait_for expires before the future is done: wait_for
\* cancels the future
Timeout(t) ==
    /\ pc[t] = "wait"
    /\ ~FutDone(fut[t])
    /\ Apply([TaskState EXCEPT !.fut[t].st = "timedout"])

\* how wait_for ends on a future that is done
WaitOutcome(f) ==
    IF f.st = "result" THEN "response"
    ELSE IF f.st = "timedout" THEN "timeout"
    ELSE "cancelled"

\* wait_for returns or raises in task t, and send_request is left
Resume(t) ==
    /\ pc[t] = "wait"
    /\ FutDone(fut[t])
    /\ Apply(Finish(LeaveRequest(TaskState), t, WaitOutcome(fut[t]), fut[t].res))

(***************************************************************************)
(* The notification callback.                                              *)
(***************************************************************************)
Deliver(data, rest) ==
    LET d == on_notify([inbuf |-> inbuf, queue |-> queue, pending |-> pending,
                        fut |-> fut, log |-> <<>>], data)
    IN  /\ inbuf' = d.inbuf /\ queue' = d.queue /\ pending' = d.pending /\ fut' = d.fut
        /\ dispatched' = d.log
        /\ rxAll' = (IF "stream" \in env.trace THEN rxAll \o data ELSE rxAll)
        /\ dispAll' = (IF "stream" \in env.trace THEN dispAll \o d.log ELSE dispAll)
        /\ nnotify' = nnotify + 1
        /\ hubStream' = rest
        \* put_nowait wakes a caller suspended in queue.get()
        /\ getter' = (IF getter = "blocked" /\ d.queue # queue THEN "woken" ELSE getter)
        /\ UNCHANGED <<connVars, taskVars, env, calc, recvd, bt, waitfor>>

\* a link other than that of client k has on_notify as its TX callback
\* (any link, with k = NoClient): that of self.client, of a client a
\* connect() is opening, or of one that was left behind
Notifying(l, k) == \E j \in Clients \ {k} : l[j].cb

\* the frame f carries a message of the ID a waiting request expects
Answers(f) ==
    /\ pending # NoPending
    /\ ~FutDone(fut[pending.fut])
    /\ LET u == cobs_unpack(f)
       IN  u.ok /\ u.payload # <<>> /\ u.payload[1] = pending.id

\* the BLE stack calls on_notify with the bytes of one notification: the
\* next bytes of the block the hub is sending, or of a block it begins
OnNotify ==
    /\ Notifying(links, NoClient)
    /\ nnotify < env.notifies
    /\ \E f \in (IF hubStream # <<>> THEN {hubStream} ELSE HubBlocks(env.frames)) :
         /\ env.solicited => Answers(f)
         /\ \E k \in (IF env.cuts THEN 1..Len(f) ELSE {Len(f)}) :
            Deliver(SubSeq(f, 1, k), SubSeq(f, k + 1, Len(f)))

\* recv() without timeout is called on an inbox that holds a message:
\* queue.get() returns the oldest at once, and recv() returns it
Recv ==
    /\ queue # <<>>
    /\ LET r == recv([inbuf |-> inbuf, queue |-> queue, pending |-> pending,
                      fut |-> fut, log |-> <<>>])
       IN  /\ queue' = r.d.queue
           /\ recvd' = Append(recvd, r.msg)
    /\ UNCHANGED <<connVars, inbuf, pending, fut, taskVars, dispatched, rxAll, dispAll,
                   nnotify, hubStream, env, calc, bt, waitfor, getter>>

\* recv() without timeout is called on an empty inbox: queue.get() suspends
\* the caller
RecvBlocks ==
    /\ getter = "idle"
    /\ queue = <<>>
    /\ getter' = queue_get(queue).getter
    /\ UNCHANGED <<connVars, dispVars, taskVars, dispatched, rxAll, dispAll, nnotify,
                   hubStream, env, calc, recvd, bt, waitfor>>

\* the coroutine woken by a put runs again: it takes the oldest message, or
\* suspends again when the inbox has been emptied meanwhile.  The message
\* is returned by recv(), or ends the task of wait_for.
RecvResume ==
    /\ getter = "woken"
    /\ LET r == queue_get(queue)
       IN  /\ getter' = r.getter
           /\ queue' = r.queue
           /\ IF waitfor.st = "running"
              THEN /\ waitfor' = (IF r.got = <<>> THEN waitfor ELSE WaitForDone(r.got))
                   /\ UNCHANGED recvd
              ELSE /\ recvd' = recvd \o r.got
                   /\ UNCHANGED waitfor
    /\ UNCHANGED <<connVars, inbuf, pending, fut, taskVars, dispatched, rxAll, dispAll,
                   nnotify, hubStream, env, calc, bt>>

\* recv(timeout) is called: wait_for creates the task of queue.get() and
\* suspends the caller
RecvTimed ==
    /\ waitfor.st = "none"
    /\ waitfor' = [NoWaitFor EXCEPT !.st = "created"]
    /\ UNCHANGED <<connVars, dispVars, taskVars, dispatched, rxAll, dispAll, nnotify,
                   hubStream, env, calc, recvd, bt, getter>>

\* the task of wait_for runs queue.get(): it takes the oldest message and
\* ends, or suspends on an empty inbox (the model follows one suspended
\* coroutine: none is suspended there yet)
WaitForGet ==
    /\ waitfor.st = "created"
    /\ queue # <<>> \/ getter = "idle"
    /\ LET r == queue_get(queue)
       IN  /\ queue' = r.queue
           /\ IF r.got = <<>>
              THEN getter' = r.getter /\ waitfor' = [waitfor EXCEPT !.st = "running"]
              ELSE waitfor' = WaitForDone(r.got) /\ UNCHANGED getter
    /\ UNCHANGED <<connVars, inbuf, pending, fut, taskVars, dispatched, rxAll, dispAll,
                   nnotify, hubStream, env, calc, recvd, bt>>

\* the caller of recv(timeout) runs after its task has ended (or after the
\* timeout expired on the ended task): recv returns the message
WaitForReturn ==
    /\ waitfor.st = "done"
    /\ recvd' = recvd \o waitfor.got
    /\ waitfor' = NoWaitFor
    /\ UNCHANGED <<connVars, dispVars, taskVars, dispatched, rxAll, dispAll, nnotify,
                   hubStream, env, calc, bt, getter>>

\* the timeout expires before the task has ended: wait_for cancels the task
\* (a message it was woken for stays in the inbox) and recv raises
\* TimeoutError
WaitForTimeout ==
    /\ waitfor.st \in {"created", "running"}
    /\ waitfor' = NoWaitFor
    /\ getter' = (IF waitfor.st = "running" THEN "idle" ELSE getter)
    /\ UNCHANGED <<connVars, dispVars, taskVars, dispatched, rxAll, dispAll, nnotify,
                   hubStream, env, calc, recvd, bt>>

\* the steps of the callers of recv
RecvSteps ==
    \/ Recv
    \/ RecvBlocks
    \/ RecvResume
    \/ RecvTimed
    \/ WaitForGet
    \/ WaitForReturn
    \/ WaitForTimeout

(***************************************************************************)
(* BLEConnection.connect and disconnect.  Each caller runs one call at a   *)
(* time; the calls of different callers overlap at their awaits.           *)
(***************************************************************************)
\* the link history, recorded when env.trace asks for it
Raised(r) == IF "link" \in env.trace THEN r ELSE connErr

ConnUnchanged ==
    UNCHANGED <<dispVars, taskVars, dispatched, rxAll, dispAll, nnotify, env, calc, recvd, bt,
                waitfor, getter>>

\* the rest of the block the hub is sending, after a link has gone or lost
\* its callback: nothing when no link notifies any more, else the block
\* goes on or is lost with the link that carried it
StreamAfter(notifying) == IF notifying THEN {hubStream, <<>>} ELSE {<<>>}

\* the caller is in no call any more
Returned(c) ==
    /\ connPc' = [connPc EXCEPT ![c] = "idle"]
    /\ held' = [held EXCEPT ![c] = NoClient]

\* caller c calls connect(), whether or not self.client is set: the target
\* is looked up, a BleakClient is created and client.connect() is awaited
ConnectBegin(c) ==
    /\ connPc[c] = "idle"
    /\ env.reconnect \/ client = NoClient
    /\ \E k \in env.clients : ~InUse(k)
    /\ connPc' = [connPc EXCEPT ![c] = "c_open"]
    /\ held' = [held EXCEPT ![c] = NewClient]
    /\ UNCHANGED <<client, links, resolved, notify_started, connErr, hubStream>>
    /\ ConnUnchanged

\* find_device or client.connect() raises or leaves the client unconnected
\* (connectfailed); or the client is connected, and resolve() raises
\* (servicenotfound: the client is dropped with its link up) or sets the
\* characteristics, and start_notify is called: connect() goes on, no call
\* has ended
ConnectOpen(c) ==
    /\ connPc[c] = "c_open"
    /\ \E r \in {"connectfailed", "servicenotfound", "ok"} :
         /\ connErr' = (IF r = "ok" THEN connErr ELSE Raised(r))
         /\ links' = (IF r = "connectfailed" THEN links
                      ELSE [links EXCEPT ![held[c]].up = TRUE])
         /\ IF r = "ok"
            THEN /\ resolved' = TRUE
                 /\ connPc' = [connPc EXCEPT ![c] = "c_notify"]
                 /\ UNCHANGED held
            ELSE /\ Returned(c)
                 /\ UNCHANGED resolved
    /\ UNCHANGED <<client, notify_started, hubStream>>
    /\ ConnUnchanged

ConnectNotifySkipped(c) ==
    /\ connPc[c] = "c_notify"
    /\ notify_started' = TRUE
    /\ connPc' = [connPc EXCEPT ![c] = "c_settle"]
    /\ UNCHANGED <<client, links, held, connErr, resolved, hubStream>>
    /\ ConnUnchanged
\* start_notify on the new client returns (the callback is installed) or
\* raises (the new client is dropped with the link it has)
ConnectNotify(c) ==
    /\ connPc[c] = "c_notify"
    /\ \E ok \in (IF links[held[c]].up THEN {TRUE, FALSE} ELSE {FALSE}) :
         IF ok
         THEN /\ links' = [links EXCEPT ![held[c]].cb = TRUE]
              /\ notify_started' = TRUE
              /\ connPc' = [connPc EXCEPT ![c] = "c_settle"]
              /\ UNCHANGED <<held, connErr>>
         ELSE /\ Returned(c)
              /\ connErr' = Raised("subscribefailed")
              /\ UNCHANGED <<links, notify_started>>
    /\ UNCHANGED <<client, resolved, hubStream>>
    /\ ConnUnchanged

\* the settling sleep is over: the new client is stored and connect returns;
\* the client that self.client held until now is dropped with the link it has
ConnectSettle(c) ==
    /\ connPc[c] = "c_settle"
    /\ client' = held[c]
    /\ Returned(c)
    /\ connErr' = Raised("none")
    /\ UNCHANGED <<links, resolved, notify_started, hubStream>>
    /\ ConnUnchanged

\* the finally clause of disconnect, ending it with result r
DisconnectFinally(c, r) ==
    LET d == cleanup([inbuf |-> inbuf, queue |-> queue, pending |-> pending,
                      fut |-> fut, log |-> <<>>, getter |-> getter])
    IN  /\ client' = NoClient /\ notify_started' = FALSE
        /\ inbuf' = d.inbuf /\ queue' = d.queue /\ pending' = d.pending /\ fut' = d.fut
        /\ getter' = d.getter
        /\ Returned(c)
        /\ connErr' = Raised(r)
        /\ rxAll' = <<>> /\ dispAll' = <<>>
        /\ UNCHANGED <<resolved, taskVars, dispatched, nnotify, env, calc, recvd, bt, waitfor>>

\* disconnect after stop_notify, at `if self.client.is_connected`: with
\* self.client None (the finally clause of another disconnect() has run) it
\* raises AttributeError; with the link up client.disconnect() is called;
\* else disconnect finishes
DisconnectClose(c) ==
    IF client = NoClient THEN DisconnectFinally(c, "attributeerror")
    ELSE IF links[client].up
    THEN /\ connPc' = [connPc EXCEPT ![c] = "d_close"]
         /\ held' = [held EXCEPT ![c] = client]
         /\ UNCHANGED <<client, notify_started, resolved, connErr, dispVars, taskVars,
                        dispatched, rxAll, dispAll, nnotify, env, calc, recvd, bt,
                        waitfor, getter>>
    ELSE DisconnectFinally(c, "none")

\* caller c calls disconnect(): nothing to do without a client, else
\* stop_notify is called on self.client
DisconnectBegin(c) ==
    /\ connPc[c] = "idle"
    /\ IF client = NoClient
       THEN /\ connErr' = Raised("none")
            /\ UNCHANGED <<client, links, held, resolved, notify_started, connPc, hubStream>>
            /\ ConnUnchanged
       ELSE IF notify_started /\ resolved
       THEN /\ connPc' = [connPc EXCEPT ![c] = "d_stop"]
            /\ held' = [held EXCEPT ![c] = client]
            /\ UNCHANGED <<client, links, resolved, notify_started, connErr, hubStream>>
            /\ ConnUnchanged
       ELSE /\ DisconnectClose(c)
            /\ UNCHANGED <<links, hubStream>>

\* stop_notify returns (the callback of the client is removed) or raises
\* (the exception is swallowed)
DisconnectStopped(c) ==
    /\ connPc[c] = "d_stop"
    /\ \E ok \in BOOLEAN :
         /\ links' = [links EXCEPT ![held[c]].cb = IF ok THEN FALSE ELSE @]
         /\ hubStream' \in (IF ok /\ links[held[c]].cb
                            THEN StreamAfter(Notifying(links, held[c]))
                            ELSE {hubStream})
    /\ DisconnectClose(c)

\* client.disconnect() returns (the link is closed) or raises (the link is
\* left as it is, with the callback it has); either way the finally clause
\* runs and self.client is cleared
DisconnectClosed(c) ==
    /\ connPc[c] = "d_close"
    /\ \E ok \in (IF links[held[c]].up /\ "close" \notin env.faults THEN {TRUE} ELSE BOOLEAN) :
         IF ok
         THEN /\ links' = [links EXCEPT ![held[c]] = NoLink]
              /\ hubStream' \in (IF links[held[c]].cb
                                 THEN StreamAfter(Notifying(links, held[c]))
                                 ELSE {hubStream})
              /\ DisconnectFinally(c, "none")
         ELSE /\ UNCHANGED <<links, hubStream>>
              /\ DisconnectFinally(c, "disconnectraised")

\* the hub or the radio drops the link of one client: that of self.client,
\* of a client a connect() is opening, or of one that was left behind
LinkDrop ==
    /\ \E k \in Clients :
         /\ links[k].up
         /\ links' = [links EXCEPT ![k] = NoLink]
         /\ hubStream' \in (IF links[k].cb THEN StreamAfter(Notifying(links, k))
                            ELSE {hubStream})
    /\ UNCHANGED <<client, held, resolved, notify_started, connPc, connErr>>
    /\ ConnUnchanged

\* the steps of a task that does not wait for the lock
TaskSteps ==
    \/ \E t \in Tasks : StartOp(t)
    \/ \E t \in Tasks : WriteDone(t)
    \/ \E t \in Tasks : Timeout(t)
    \/ \E t \in Tasks : Resume(t)

\* the steps of connect()
ConnectSteps ==
    \/ \E c \in env.callers : ConnectBegin(c)
    \/ \E c \in env.callers : ConnectOpen(c)
    \/ \E c \in env.callers : ConnectNotify(c)
    \/ \E c \in env.callers : ConnectSettle(c)

\* the steps of connect(), of disconnect() and of the link
LinkSteps ==
    \/ ConnectSteps
    \/ \E c \in env.callers : DisconnectBegin(c)
    \/ \E c \in env.callers : DisconnectStopped(c)
    \/ \E c \in env.callers : DisconnectClosed(c)
    \/ LinkDrop

Next ==
    \/ TaskSteps
    \/ \E t \in Tasks : LockGranted(t)
    \/ OnNotify
    \/ LinkSteps

(***************************************************************************)
(* Spec: two tasks issue typed requests while the hub is connected,        *)
(* disconnected and sent whole frames.                                     *)
(***************************************************************************)
Init ==
    /\ InitCommon
    /\ hubStream = <<>>
    /\ env = [ menu |-> [t \in Tasks |-> IF t = 1 THEN {"get_info", "clear_slot"}
                                         ELSE {"get_info"}],
               frames |-> "responses",
               cuts |-> FALSE, solicited |-> FALSE, trace |-> {},
               callers |-> {1}, clients |-> {1},
               reconnect |-> FALSE, faults |-> {},
               ops |-> MaxOps, notifies |-> MaxNotify ]

Spec == Init /\ [][Next]_vars

(***************************************************************************)
(* Properties of Spec.                                                     *)
(***************************************************************************)
\* the tasks inside send_request past the installation of the slot
InRequest == {t \in Tasks : cur[t].kind = "request" /\ pc[t] \in {"writing", "wait"}}

\* C1: at most one typed request occupies the request slot: the tasks past
\* the installation of their slot are at most one, an installed slot belongs
\* to the task that holds the lock and is inside its request, and a task
\* that called send_request meanwhile is suspended on the lock.
C1_SlotExclusive ==
    /\ Cardinality(InRequest) <= 1
    /\ pending # NoPending =>
          /\ lock = pending.fut
          /\ InRequest = {pending.fut}
          /\ pending.id = cur[pending.fut].exp
    /\ \A t \in Tasks : pc[t] = "lockwait" =>
          /\ lock # 0
          /\ (lock = t \/ \E i \in 1..Len(waiters) : waiters[i] = t)
    /\ \A t \in Tasks : outcome[t].out # "busy"

C1_Witness ==
    \E t \in Tasks : pending # NoPending /\ pending.fut # t /\ pc[t] = "lockwait"

\* the log without its i-th message (the whole log when i = 0)
LogWithout(log, i) ==
    IF i = 0 THEN log ELSE SubSeq(log, 1, i - 1) \o SubSeq(log, i + 1, Len(log))

\* the first index of a message with ID k in the log, 0 when there is none
RECURSIVE FirstWithID(_, _, _)
FirstWithID(log, k, i) ==
    IF i > Len(log) THEN 0 ELSE IF log[i].id = k THEN i ELSE FirstWithID(log, k, i + 1)

\* C2: in a notification that finds a slot installed for ID k with its
\* waiter not completed, the first decoded message with ID k completes the
\* waiter and is not enqueued, and every message decoded before it (its ID
\* differs from k) is appended to the inbox in order and leaves the waiter
\* as it was; without a message of ID k the waiter stays uncompleted.
C2_Routing ==
    [][ (nnotify' = nnotify + 1 /\ pending # NoPending /\ ~FutDone(fut[pending.fut])) =>
          LET log == dispatched'
              hit == FirstWithID(log, pending.id, 1)
          IN  /\ pending' = pending
              /\ queue' = queue \o LogWithout(log, hit)
              /\ \A i \in 1..Len(log) :
                    (hit = 0 \/ i < hit) =>
                        /\ log[i].id # pending.id
                        /\ queue'[Len(queue) + i] = log[i]
              /\ hit = 0 => fut' = fut
              /\ hit > 0 =>
                    fut' = [fut EXCEPT ![pending.fut] = [st |-> "result", res |-> log[hit]]]
      ]_vars

C2_Witness ==
    /\ pending # NoPending
    /\ fut[pending.fut].st = "result"
    /\ fut[pending.fut].res = SmallInfo
    /\ dispatched = <<Msg(DeviceNotificationID, <<>>), SmallInfo, LargeInfo>>
    /\ queue = <<Msg(DeviceNotificationID, <<>>), LargeInfo>>

\* C3: a request whose wait times out ends with Timeout; a message arriving
\* after the timeout does not complete it; when it ends the request slot is
\* empty and the lock is free or handed to the first task waiting for it.
C3_Timeout ==
    [][ \A t \in Tasks :
          (pc[t] = "wait" /\ fut[t].st = "timedout") =>
              \/ pc'[t] = "wait" /\ fut'[t] = fut[t] /\ lock' = t
              \/ /\ pc'[t] = "idle"
                 /\ outcome'[t].out = "timeout"
                 /\ pending' = NoPending
                 /\ lock' = (IF waiters = <<>> THEN 0 ELSE Head(waiters))
                 /\ lock' # t
      ]_vars

C3_Witness ==
    /\ outcome[1].out = "timeout"
    /\ pc[2] = "wait"
    /\ pending = [id |-> InfoResponseID, fut |-> 2]

\* C4: when disconnect() runs its cleanup while a request waits for its
\* response, the waiter is cancelled; a cancelled waiter cannot time out,
\* its task can resume (wait_for returns on a done future), and when it
\* does the request ends with Cancelled.
C4_DisconnectCancels ==
    [][ \A t \in Tasks :
          /\ (pc[t] = "wait" /\ fut[t].st = "pending" /\ client # NoClient /\ client' = NoClient) =>
                /\ fut'[t].st = "cancelled"
                /\ pc'[t] = "wait"
                /\ pending' = NoPending
          /\ (pc[t] = "wait" /\ fut[t].st = "cancelled") =>
                /\ FutDone(fut[t])
                /\ \/ pc'[t] = "wait" /\ fut'[t] = fut[t]
                   \/ pc'[t] = "idle" /\ outcome'[t].out = "cancelled"
      ]_vars

C4_Witness ==
    \E t \in Tasks : outcome[t].out = "cancelled" /\ outcome[t].exp = InfoResponseID

\* C5: after a request expecting ID k has ended with Timeout or Cancelled,
\* a notification carrying a message of ID k enqueues it and completes no
\* waiter with it.
C5_StaleEnqueued ==
    [][ \A t \in Tasks :
          (nnotify' = nnotify + 1 /\ outcome[t].out \in {"timeout", "cancelled"}) =>
              \A i \in 1..Len(dispatched') :
                  dispatched'[i].id = outcome[t].exp =>
                      /\ \A u \in Tasks : fut'[u].res # dispatched'[i] \/ fut'[u] = fut[u]
                      /\ \E j \in (Len(queue) + 1)..Len(queue') : queue'[j] = dispatched'[i]
      ]_vars

(***************************************************************************)
(* SpecWire: the writes of concurrent operations once an InfoResponse may  *)
(* be cached; the history of the writes is recorded.                       *)
(***************************************************************************)
InitWire ==
    /\ InitCommon
    /\ hubStream = <<>>
    /\ env = [ menu |-> [t \in Tasks |-> IF t = 1 THEN {"get_info", "send_request"}
                                         ELSE {"send_message", "clear_slot"}],
               frames |-> "responses",
               cuts |-> FALSE, solicited |-> FALSE, trace |-> {"writes", "sent"},
               callers |-> {1}, clients |-> {1},
               reconnect |-> FALSE, faults |-> {},
               ops |-> WireOps, notifies |-> WireNotify ]

SpecWire == InitWire /\ [][Next]_vars

\* C6: outbound frames are not interleaved: while a task is inside
\* write_frame with segments of its frame still to write, the next GATT
\* write is the next segment of that frame.
C6_NoInterleaving ==
    [][ LET w == lastWrite
        IN  ( /\ w.t # 0
              /\ pc[w.t] = "writing"
              /\ cur[w.t].op = w.op
              /\ w.off + Len(w.seg) < w.len
              /\ lastWrite' # w )
            => ( /\ lastWrite'.t = w.t /\ lastWrite'.op = w.op /\ lastWrite'.fr = w.fr
                 /\ lastWrite'.off = w.off + Len(w.seg) )
      ]_vars

\* C7: a GATT write issued while an InfoResponse is cached carries at most
\* max_packet_size bytes, and one issued while none is cached carries the
\* whole frame.
C7_WritesBounded ==
    lastWrite.t # 0 =>
        IF lastWrite.cached # NoInfo /\ max_packet_size(lastWrite.cached) # 0
        THEN Len(lastWrite.seg) <= max_packet_size(lastWrite.cached)
        ELSE Len(lastWrite.seg) = lastWrite.len

(***************************************************************************)
(* SpecUpload: one task uploads programs; the hub answers the waiting      *)
(* request, acknowledging or refusing.  No task ever waits for the lock.   *)
(***************************************************************************)
InitUpload ==
    /\ InitCommon
    /\ hubStream = <<>>
    /\ env = [ menu |-> [t \in Tasks |-> IF t = 1 THEN {"upload"} ELSE {}],
               frames |-> "upload",
               cuts |-> FALSE, solicited |-> TRUE, trace |-> {"sent"},
               callers |-> {1}, clients |-> {1},
               reconnect |-> FALSE, faults |-> {},
               ops |-> UploadOps, notifies |-> UploadNotify ]

NextUpload == TaskSteps \/ OnNotify \/ LinkSteps

SpecUpload == InitUpload /\ [][NextUpload]_vars

\* ceil(L / C)
ChunkCount(L, C) == (L + C - 1) \div C

\* data[0 : n], n capped by the length
Prefix(data, n) == SubSeq(data, 1, IF n < Len(data) THEN n ELSE Len(data))

\* the messages the upload of data in chunks of C bytes is to emit
ExpectedUpload(data, C, slot, name) ==
    <<StartFileUploadRequest(name, slot, crc(data, CrcZero))>>
    \o [i \in 1..ChunkCount(Len(data), C) |->
          TransferChunkRequest(crc(Prefix(data, i * C), CrcZero),
                               SubSeq(Prefix(data, i * C), (i - 1) * C + 1,
                                      Len(Prefix(data, i * C))))]
    \o <<ProgramFlowRequest(FALSE, slot)>>

\* the messages sent, without a leading InfoRequest
AfterInfoRequest(sent) ==
    IF sent # <<>> /\ sent[1] = InfoRequest THEN Tail(sent) ELSE sent

\* C8: when upload_program returns, the messages it has sent after any
\* InfoRequest are one StartFileUpload with crc(data, 0), then ceil(L/C)
\* TransferChunks over the consecutive chunks of C bytes, the i-th with the
\* CRC of the first i chunks, then one ProgramFlow start for the slot.
C8_UploadSequence ==
    [][ (prog[1].op = "upload" /\ prog'[1].op = "idle" /\ outcome'[1].out = "response") =>
          /\ prog[1].max_chunk % CRC_ALIGN = 0
          /\ AfterInfoRequest(outbox'[1]) =
                ExpectedUpload(prog[1].data, prog[1].max_chunk, Slot, ProgramName)
      ]_vars

C8_Witness ==
    /\ outcome[1].out = "response"
    /\ Len(AfterInfoRequest(outbox[1])) = 4
    /\ outbox[1][Len(outbox[1]) - 1].id = TransferChunkRequestID
    /\ outbox[1][Len(outbox[1]) - 2].id = TransferChunkRequestID

\* C9: when upload_program resumes with a StartFileUploadResponse or a
\* TransferChunkResponse whose body indicates a failure, it sends no
\* further message and ends with an error.
C9_AbortOnFailure ==
    [][ ( /\ prog[1].op = "upload" /\ prog[1].phase \in {"start", "chunk"}
          /\ pc[1] = "wait" /\ fut[1].st = "result" /\ HubFailure(fut[1].res)
          /\ pc'[1] # "wait" )
        => ( /\ outbox'[1] = outbox[1]
             /\ prog'[1].op = "idle"
             /\ outcome'[1].out \notin {"response", "none"} )
      ]_vars

(***************************************************************************)
(* SpecDeframe: the hub is to send one block of frames, which the BLE      *)
(* stack cuts into notifications anywhere; no task runs and disconnect()   *)
(* is not called.                                                          *)
(***************************************************************************)
InitDeframe ==
    /\ InitCommon
    /\ hubStream \in PieceBlocks
    /\ env = [ menu |-> [t \in Tasks |-> {}],
               frames |-> "none",
               cuts |-> TRUE, solicited |-> FALSE, trace |-> {"stream"},
               callers |-> {1}, clients |-> {1},
               reconnect |-> FALSE, faults |-> {},
               ops |-> 0, notifies |-> MaxCuts ]

NextDeframe == OnNotify \/ ConnectSteps

SpecDeframe == InitDeframe /\ [][NextDeframe]_vars

\* the number of delimiters in the bytes
DelimiterCount(bytes) == Cardinality({i \in 1..Len(bytes) : bytes[i] = DELIMITER})

\* the dispatcher after one notification carrying all the bytes
AtOnce(bytes) ==
    on_notify([inbuf |-> <<>>, queue |-> <<>>, pending |-> NoPending, fut |-> fut,
               log |-> <<>>], bytes)

\* C10: however the bytes notified since the buffer was last empty were cut
\* into notifications, the messages dispatched since then, the inbox and
\* the bytes left in the buffer are those of one notification carrying all
\* the bytes; and the messages dispatched are no more than the delimiters
\* notified.
C10_PartitionIndependent ==
    "stream" \in env.trace =>
        LET once == AtOnce(rxAll)
        IN  /\ dispAll = once.log
            /\ queue = once.queue
            /\ inbuf = once.inbuf
            /\ Len(dispAll) <= DelimiterCount(rxAll)
            /\ DelimiterCount(inbuf) = 0

\* two frames notified in two parts, the first part ending inside the first
\* frame
C10_Witness ==
    /\ nnotify = 2
    /\ rxAll = Frame(Msg(DeviceNotificationID, <<170>>)) \o Frame(SmallInfo)
    /\ dispatched = <<Msg(DeviceNotificationID, <<170>>), SmallInfo>>
    /\ dispAll = dispatched

\* the bytes a notification added to rxAll
Notified == SubSeq(rxAll', Len(rxAll) + 1, Len(rxAll'))

\* the complete frames of the bytes, each with its delimiter, in order
RECURSIVE FramesIn(_, _, _)
FramesIn(bytes, start, i) ==
    IF i > Len(bytes) THEN <<>>
    ELSE IF bytes[i] = DELIMITER
         THEN <<SubSeq(bytes, start, i)>> \o FramesIn(bytes, i + 1, i + 1)
    ELSE FramesIn(bytes, start, i + 1)

\* the bytes after the last delimiter
RECURSIVE AfterLastDelimiter(_, _)
AfterLastDelimiter(bytes, i) ==
    IF i = 0 THEN bytes
    ELSE IF bytes[i] = DELIMITER THEN SubSeq(bytes, i + 1, Len(bytes))
    ELSE AfterLastDelimiter(bytes, i - 1)

\* the frame decodes to a message
Decodes(frame) ==
    cobs_unpack(frame).ok /\ msg_deserialize(cobs_unpack(frame).payload).ok
MessageOf(frame) == msg_deserialize(cobs_unpack(frame).payload).msg

\* the messages of the frames that decode, in the order of the frames
RECURSIVE MessagesOf(_)
MessagesOf(frames) ==
    IF frames = <<>> THEN <<>>
    ELSE (IF Decodes(Head(frames)) THEN <<MessageOf(Head(frames))>> ELSE <<>>)
         \o MessagesOf(Tail(frames))

\* C11: a notification dispatches, during that one callback and in the
\* order in which their delimiters arrive, the messages of all the frames
\* that the buffered bytes and the notified bytes complete.
C11_DispatchOrder ==
    [][ nnotify' = nnotify + 1 =>
          /\ dispatched' = MessagesOf(FramesIn(inbuf \o Notified, 1, 1))
          /\ dispAll' = dispAll \o dispatched'
          /\ queue' = queue \o dispatched'
      ]_vars

\* two frames coalesced in the first notification
C11_Witness ==
    /\ nnotify = 1
    /\ rxAll = Frame(SmallInfo) \o Frame(Msg(DeviceNotificationID, <<170>>))
    /\ dispatched = <<SmallInfo, Msg(DeviceNotificationID, <<170>>)>>
    /\ queue = dispatched

\* the frames that do not decode
BadFrames(frames) == {j \in 1..Len(frames) : ~Decodes(frames[j])}

\* C12: a frame that does not decode is dropped alone: of the frames
\* notified, exactly those that decode have a message dispatched, the frames
\* after a dropped one included, and the buffer holds the bytes after the
\* last delimiter.
C12_BadFrameDropped ==
    "stream" \in env.trace =>
        LET frames == FramesIn(rxAll, 1, 1)
            bad == BadFrames(frames)
        IN  /\ Len(dispAll) = Len(frames) - Cardinality(bad)
            /\ inbuf = AfterLastDelimiter(rxAll, Len(rxAll))
            /\ \A j \in 1..Len(frames) :
                  j \notin bad =>
                      dispAll[j - Cardinality({k \in bad : k < j})] = MessageOf(frames[j])

\* a frame that cannot be decoded, then the first bytes of a valid frame,
\* then its last bytes in a later notification
C12_Witness ==
    /\ nnotify = 2
    /\ rxAll = <<DELIMITER>> \o Frame(SmallInfo)
    /\ dispatched = <<SmallInfo>>
    /\ dispAll = <<SmallInfo>>

\* the bytes of the block without the frames whose payload starts with an
\* ID that has no decoder
RECURSIVE Concat(_)
Concat(frames) == IF frames = <<>> THEN <<>> ELSE Head(frames) \o Concat(Tail(frames))
UnknownID(frame) ==
    LET u == cobs_unpack(frame)
    IN  u.ok /\ u.payload # <<>> /\ u.payload[1] \notin KnownIDs
KnownOnly(block) ==
    LET frames == FramesIn(block, 1, 1)
    IN  Concat(SelectSeq(frames, LAMBDA f : ~UnknownID(f)))
        \o AfterLastDelimiter(block, Len(block))

\* C13: a frame whose payload starts with an ID without a decoder is
\* dropped: no message with such an ID is dispatched, and the notification
\* leaves the buffer, the inbox, the request slot and its waiter as the
\* same block without that frame would leave them.
C13_UnknownDropped ==
    [][ nnotify' = nnotify + 1 =>
          /\ \A j \in 1..Len(dispatched') : dispatched'[j].id \in KnownIDs
          /\ \E f \in ResponseBlocks :
                LET d == on_notify([inbuf |-> inbuf, queue |-> queue, pending |-> pending,
                                    fut |-> fut, log |-> <<>>], KnownOnly(f))
                IN  /\ inbuf' = d.inbuf /\ queue' = d.queue
                    /\ pending' = d.pending /\ fut' = d.fut /\ dispatched' = d.log
      ]_vars

\* a notification with only a frame of unknown ID arrived while a request
\* was waiting: nothing dispatched, the waiter still waiting
C13_Witness ==
    /\ nnotify = 1
    /\ dispatched = <<>>
    /\ pending # NoPending
    /\ pending.id = InfoResponseID
    /\ fut[pending.fut].st = "pending"
    /\ queue = <<>>
    /\ inbuf = <<>>

(***************************************************************************)
(* SpecCodec: the framer and the CRC applied to inputs drawn from bounded  *)
(* sets; no connection, no task.                                           *)
(***************************************************************************)
MaxLen == 3
MaxWords == 1

\* the sequences over S of length up to n
RECURSIVE SeqsUpTo(_, _)
SeqsUpTo(S, n) ==
    IF n = 0 THEN {<<>>}
    ELSE LET r == SeqsUpTo(S, n - 1)
         IN  r \cup {Append(q, b) : q \in {x \in r : Len(x) = n - 1}, b \in S}

Run(n, b) == [i \in 1..n |-> b]

\* the bytes up to the delimiter, the first data byte, the last byte
CodecBytes == {0, 1, DELIMITER, 3, 255}

\* runs around the block length, alone or followed by a byte that the
\* framer escapes or by one more data byte
RunLengths == {MAX_BLOCK - 1, MAX_BLOCK, MAX_BLOCK + 1, 2 * MAX_BLOCK, 2 * MAX_BLOCK + 1}
LongPayloads ==
    {Run(n, b) \o s : n \in RunLengths, b \in {3, 255}, s \in {<<>>, <<0>>, <<DELIMITER>>, <<3>>}}

Payloads == SeqsUpTo(CodecBytes, MaxLen) \cup LongPayloads

\* the chunks sent before the last one: their lengths are multiples of 4
CrcWords == {<<0, 0, 0, 0>>, <<255, 255, 255, 255>>, <<49, 0, 255, DELIMITER>>}
AlignedData == {Concat(ws) : ws \in SeqsUpTo(CrcWords, MaxWords)}
\* the last chunk, of any length
TailData == SeqsUpTo({0, 49, 255}, MaxLen)

CalcUnchanged ==
    UNCHANGED <<connVars, dispVars, taskVars, dispatched, rxAll, dispAll, nnotify,
                hubStream, env, recvd, bt, waitfor, getter>>

\* frame = cobs_pack(p)
CalcPack ==
    /\ calc.fn = "none"
    /\ \E p \in Payloads : calc' = [fn |-> "pack", p |-> p, frame |-> cobs_pack(p)]
    /\ CalcUnchanged

\* back = cobs_unpack(frame)
CalcUnpack ==
    /\ calc.fn = "pack"
    /\ calc' = [fn |-> "unpack", p |-> calc.p, frame |-> calc.frame,
                back |-> cobs_unpack(calc.frame)]
    /\ CalcUnchanged

\* the frames the deframer may cut from the stream: bytes other than the
\* delimiter, then the delimiter.  Unmasked, the bytes are the codes 3 (an
\* empty block absorbing 0), 2 (below every code that pack writes), 6 and 4
\* (blocks of 3 and 1 data bytes), the data byte 19 and NO_DELIM
RawBytes == {0, 1, 5, 7, 16, 252}
RawFrames == {Append(q, DELIMITER) : q \in SeqsUpTo(RawBytes, MaxLen)}

\* back = cobs_unpack(frame) for a frame that pack need not have made
CalcUnpackRaw ==
    /\ calc.fn = "none"
    /\ \E f \in RawFrames : calc' = [fn |-> "unpackraw", frame |-> f, back |-> cobs_unpack(f)]
    /\ CalcUnchanged

\* the loop of write_frame from offset o: the offsets and segments of its
\* calls of write_gatt_char, in the order of the calls
RECURSIVE WritesFrom(_, _, _)
WritesFrom(frame, o, psize) ==
    IF o >= Len(frame) THEN <<>>
    ELSE <<[off |-> o, seg |-> Segment(frame, o, psize)]>> \o WritesFrom(frame, o + psize, psize)

\* the frames written and the InfoResponses passed to write_frame: none, or
\* one with max_packet_size 0..MaxPacket
MaxPacket == 4
WriteFrames == {cobs_pack(p) : p \in SeqsUpTo({0, 3}, MaxLen)}
WriteInfos == {NoInfo} \cup {InfoResponse(k, 4) : k \in 0..MaxPacket}

\* write_frame(frame, info) on a connected transport, every write succeeding
CalcWrite ==
    /\ calc.fn = "none"
    /\ \E f \in WriteFrames, inf \in WriteInfos :
          calc' = [fn |-> "write", frame |-> f, psize |-> PacketSize(inf, f),
                   writes |-> WritesFrom(f, 0, PacketSize(inf, f))]
    /\ CalcUnchanged

\* upload_program over the data a \o b sent as the chunks a and b: the CRC
\* of the whole file, and the running CRC threaded through the chunks
CalcCrc ==
    /\ calc.fn = "none"
    /\ \E a \in AlignedData, b \in TailData :
          calc' = [fn |-> "crc", a |-> a, b |-> b,
                   whole |-> crc(a \o b, CrcZero),
                   running |-> NextRunning(b, NextRunning(a, CrcZero))]
    /\ CalcUnchanged

InitCodec ==
    /\ InitCommon
    /\ hubStream = <<>>
    /\ env = [ menu |-> [t \in Tasks |-> {}],
               frames |-> "none",
               cuts |-> FALSE, solicited |-> FALSE, trace |-> {},
               callers |-> {1}, clients |-> {1},
               reconnect |-> FALSE, faults |-> {},
               ops |-> 0, notifies |-> 0 ]

NextCodec == CalcPack \/ CalcUnpack \/ CalcUnpackRaw \/ CalcWrite \/ CalcCrc

SpecCodec == InitCodec /\ [][NextCodec]_vars

\* C14: the framer round trip: unpacking the frame packed from a payload
\* gives the payload back.
C14_RoundTrip ==
    calc.fn = "unpack" => (calc.back.ok /\ calc.back.payload = calc.p)

\* a run of MAX_BLOCK - 1 data bytes followed by a zero byte, which fills
\* a block and absorbs the zero in its code byte
C14_Witness ==
    /\ calc.fn = "unpack"
    /\ calc.p = Run(MAX_BLOCK - 1, 3) \o <<0>>
    /\ calc.back = [ok |-> TRUE, payload |-> calc.p]

\* C15: a packed frame ends with the delimiter 0x02 and holds no 0x02
\* before its last byte.
C15_DelimiterLast ==
    calc.fn = "pack" =>
        /\ calc.frame[Len(calc.frame)] = DELIMITER
        /\ \A i \in 1..(Len(calc.frame) - 1) : calc.frame[i] # DELIMITER

\* a payload of the bytes 0x01, 0x02, 0x00, each absorbed into a code byte
C15_Witness ==
    /\ calc.fn = "pack"
    /\ calc.p = <<1, DELIMITER, 0>>
    /\ Len(calc.frame) = 5

\* C20: the CRC streaming law: for a first chunk whose length is a multiple
\* of 4, the running CRC threaded through the chunks equals the CRC of the
\* whole data.
C20_CrcStreaming ==
    calc.fn = "crc" => calc.running = calc.whole

\* a first chunk of four bytes and a last chunk that is padded
C20_Witness ==
    /\ calc.fn = "crc"
    /\ Len(calc.a) = CRC_ALIGN
    /\ calc.b = <<49, 255>>
    /\ calc.running = crc(calc.a \o calc.b, CrcZero)
    /\ calc.running # CrcZero

(***************************************************************************)
(* SpecLink: one task calls Hub.send_request and Hub.send_message while    *)
(* connect() and disconnect() are called and fail in every way they can;   *)
(* the exceptions they raise and the links left open are recorded.         *)
(***************************************************************************)
LinkOps == 1
LinkNotify == 1

InitLink ==
    /\ InitCommon
    /\ hubStream = <<>>
    /\ env = [ menu |-> [t \in Tasks |-> IF t = 1 THEN {"send_request", "send_message"}
                                         ELSE {}],
               frames |-> "responses",
               cuts |-> FALSE, solicited |-> FALSE, trace |-> {"link", "writes"},
               callers |-> {1}, clients |-> {1, 2},
               reconnect |-> TRUE, faults |-> {"close"},
               ops |-> LinkOps, notifies |-> LinkNotify ]

NextLink == TaskSteps \/ OnNotify \/ LinkSteps

SpecLink == InitLink /\ [][NextLink]_vars

\* C16: when disconnect() on a connected transport finishes, returning or
\* raising, the client handle is cleared, the subscription is marked
\* stopped, the deframer buffer and the inbox are empty, the request slot is
\* empty and a waiter that was pending is cancelled.
C16_DisconnectCleans ==
    [][ (\E c \in Callers : /\ client # NoClient
                              /\ connPc[c] \in {"d_stop", "d_close"}
                              /\ connPc'[c] = "idle") =>
          /\ client' = NoClient
          /\ notify_started' = FALSE
          /\ inbuf' = <<>>
          /\ queue' = <<>>
          /\ pending' = NoPending
          /\ \A t \in Tasks :
                (pending # NoPending /\ pending.fut = t /\ fut[t].st = "pending")
                    => fut'[t].st = "cancelled"
      ]_vars

\* disconnect() raised after a notification had filled the inbox and
\* while a request was waiting: all is cleared, the waiter cancelled
C16_Witness ==
    /\ connErr = "disconnectraised"
    /\ client = NoClient /\ ~notify_started
    /\ nnotify = 1 /\ Len(dispatched) = 3
    /\ queue = <<>> /\ inbuf = <<>>
    /\ pending = NoPending
    /\ pc[1] = "wait" /\ fut[1].st = "cancelled"

(***************************************************************************)
(* SpecOverlap: as SpecLink, with two callers of connect() and             *)
(* disconnect() whose calls overlap at their awaits.                       *)
(***************************************************************************)
InitOverlap ==
    /\ InitCommon
    /\ hubStream = <<>>
    /\ env = [ menu |-> [t \in Tasks |-> IF t = 1 THEN {"send_request", "send_message"}
                                         ELSE {}],
               frames |-> "responses",
               cuts |-> FALSE, solicited |-> FALSE, trace |-> {"link", "writes"},
               callers |-> Callers, clients |-> Clients,
               reconnect |-> TRUE, faults |-> {"close"},
               ops |-> LinkOps, notifies |-> LinkNotify ]

SpecOverlap == InitOverlap /\ [][NextLink]_vars

\* C17: disconnect() never raises: no error of unsubscribe or of the GATT
\* close reaches the caller.
C17_DisconnectNeverRaises ==
    connErr \notin {"disconnectraised", "attributeerror"}

\* C18: a connect() that fails after the GATT connection was opened leaves
\* no open link: on every step on which the connect() of a caller ends by
\* raising, the link of the BleakClient it created is not up afterwards.
C18_FailedConnectCloses ==
    [][ \A c \in Callers :
           (connPc[c] \in {"c_open", "c_notify"} /\ connPc'[c] = "idle")
               => ~links'[held[c]].up
      ]_vars

\* the task that calls the operations
Caller == CHOOSE t \in Tasks : env.menu[t] # {}

\* C19: send_message or send_request called with no active GATT connection
\* fails with NotConnected at once: no GATT write is issued, and with
\* send_request the request slot is empty and the lock released.
C19_NotConnected ==
    [][ (nops' = nops + 1 /\ ~(client # NoClient /\ linkUp /\ resolved)) =>
          /\ outcome'[Caller].out = "notconnected"
          /\ pc'[Caller] = "idle"
          /\ lastWrite' = lastWrite
          /\ pending' = NoPending
          /\ lock' = 0 /\ waiters' = <<>>
      ]_vars

\* send_request was called on a transport whose link had dropped
C19_Witness ==
    /\ client # NoClient /\ ~linkUp
    /\ nops = 1
    /\ outcome[Caller].out = "notconnected"
    /\ outcome[Caller].exp = ClearSlotResponseID
    /\ pending = NoPending /\ lock = 0
    /\ lastWrite = NoWrite

(***************************************************************************)
(* SpecInbox: one task calls get_info while the hub sends responses and    *)
(* notifications and a caller takes messages from the inbox with recv().   *)
(***************************************************************************)
InboxOps == 1
InboxNotify == 2

InitInbox ==
    /\ InitCommon
    /\ hubStream = <<>>
    /\ env = [ menu |-> [t \in Tasks |-> IF t = 1 THEN {"get_info"} ELSE {}],
               frames |-> "responses",
               cuts |-> FALSE, solicited |-> FALSE, trace |-> {},
               callers |-> {1}, clients |-> {1},
               reconnect |-> FALSE, faults |-> {},
               ops |-> InboxOps, notifies |-> InboxNotify ]

NextInbox == TaskSteps \/ OnNotify \/ Recv \/ LinkSteps

SpecInbox == InitInbox /\ [][NextInbox]_vars

\* the messages of a notification that no waiter consumed
Enqueued(log) ==
    IF pending # NoPending /\ ~FutDone(fut[pending.fut])
    THEN LogWithout(log, FirstWithID(log, pending.id, 1))
    ELSE log

\* the same task with callers of recv(), with and without timeout, on a
\* transport that is connected and stays so
NextFifo == TaskSteps \/ OnNotify \/ RecvSteps \/ ConnectSteps

SpecFifo == InitInbox /\ [][NextFifo]_vars

\* C21: the inbox is FIFO: the messages recv() has returned, followed by
\* the message a recv(timeout) has taken and not yet returned and by the
\* messages still in the inbox, are the messages dispatched and not
\* consumed by a waiter, in dispatch order and each once.  On a step that
\* does not end a disconnect this sequence only grows, at its end, by the
\* messages a notification enqueues, and a recv() that returns returns the
\* oldest message not yet returned, as long as the calls are successive (no
\* recv() returns while another call holds a message it has taken).
C21_InboxFifo ==
    [][ ( /\ ~(client # NoClient /\ client' = NoClient)
          /\ ~(waitfor.st = "done" /\ waitfor' = waitfor /\ recvd' # recvd) ) =>
          /\ recvd' \o waitfor'.got \o queue' =
                recvd \o waitfor.got \o queue
                      \o (IF nnotify' = nnotify + 1 THEN Enqueued(dispatched') ELSE <<>>)
          /\ \/ recvd' = recvd
             \/ /\ waitfor.got \o queue # <<>>
                /\ recvd' = Append(recvd, Head(waitfor.got \o queue))
      ]_vars

\* two notifications enqueued four messages around a response that the
\* waiter consumed; recv() has returned the first two, a recv(timeout) has
\* taken the third and not yet returned it
C21_Witness ==
    /\ nnotify = 2
    /\ recvd = <<Msg(DeviceNotificationID, <<>>), LargeInfo>>
    /\ waitfor = WaitForDone(<<Msg(DeviceNotificationID, <<>>)>>)
    /\ queue = <<SmallInfo, LargeInfo>>
    /\ fut[1].st = "result"

\* C22: a notification whose dispatch completes the waiter of the occupied
\* slot leaves the slot empty, before the requesting task resumes.
C22_DispatchClearsSlot ==
    [][ ( /\ nnotify' = nnotify + 1
          /\ pending # NoPending
          /\ fut[pending.fut].st = "pending"
          /\ fut'[pending.fut].st = "result" )
        => pending' = NoPending
      ]_vars

\* the decoded stream of a frame: the bytes before the delimiter (after a
\* leading 0x01, which cobs_unpack skips), unmasked
DecodedStream(frame) ==
    LET start == IF frame[1] = 1 THEN 2 ELSE 1
        body  == SubSeq(frame, start, Len(frame) - 1)
    IN  [i \in 1..Len(body) |-> XorMask(body[i])]

\* the code byte at raw[i] announces more data bytes than remain, or a
\* later code byte does
RECURSIVE EndsMidBlock(_, _)
EndsMidBlock(raw, i) ==
    IF i > Len(raw) THEN FALSE
    ELSE LET blk == unesc(raw[i]).blk
         IN  IF i + blk - 1 > Len(raw) THEN TRUE ELSE EndsMidBlock(raw, i + blk)

\* C23: cobs_unpack signals a malformed frame, yielding no payload, for the
\* frame that is only the delimiter and for every frame whose decoded stream
\* ends in the middle of a block.
C23_MalformedSignalled ==
    (calc.fn = "unpackraw"
        /\ (calc.frame = <<DELIMITER>> \/ EndsMidBlock(DecodedStream(calc.frame), 1)))
    => ~calc.back.ok

\* the payload begins with MAX_BLOCK bytes above the delimiter: its first
\* block fills up without absorbing a byte
FirstBlockFull(p) ==
    Len(p) >= MAX_BLOCK /\ \A i \in 1..MAX_BLOCK : p[i] > DELIMITER

Masked(bytes) == [i \in 1..Len(bytes) |-> XorMask(bytes[i])]

\* C24 as stated: a block that fills up with MAX_BLOCK data bytes has
\* block_length + CODE_OFFSET written at its code index.
C24_FullBlockFinalized ==
    (calc.fn = "pack" /\ FirstBlockFull(calc.p)) =>
        XorMask(calc.frame[1]) \in {MAX_BLOCK + COBS_CODE_OFFSET, MAX_BLOCK + 1 + COBS_CODE_OFFSET}

\* C24, amended: a block that fills up with MAX_BLOCK data bytes keeps the
\* code NO_DELIM at its code index, and a new block is begun for the rest of
\* the payload: the frame is the masked NO_DELIM and the masked MAX_BLOCK
\* bytes, followed by the frame of the rest.
C24_FullBlockKeepsNoDelim ==
    (calc.fn = "pack" /\ FirstBlockFull(calc.p)) =>
        calc.frame = Masked(<<NO_DELIM>> \o SubSeq(calc.p, 1, MAX_BLOCK))
                     \o cobs_pack(SubSeq(calc.p, MAX_BLOCK + 1, Len(calc.p)))

\* MAX_BLOCK data bytes, then a zero absorbed by the block begun after them
C24_Witness ==
    /\ calc.fn = "pack"
    /\ calc.p = Run(MAX_BLOCK, 3) \o <<0>>
    /\ XorMask(calc.frame[1]) = NO_DELIM
    /\ Len(calc.frame) = MAX_BLOCK + 4

\* C25 as stated: the one-byte payload 0x00 packs to 0x01 0x02.
C25_PackZeroIsOneTwo ==
    (calc.fn \in {"pack", "unpack"} /\ calc.p = <<0>>) => calc.frame = <<1, DELIMITER>>

\* C25, amended: the one-byte payload 0x00 packs to 0x00 0x00 0x02: the
\* code byte 3 of an empty block that absorbed the zero and the code byte 3
\* of the empty trailing block, both masked, then the delimiter.
C25_PackZero ==
    (calc.fn \in {"pack", "unpack"} /\ calc.p = <<0>>) => calc.frame = <<0, 0, DELIMITER>>

\* the InfoRequest payload packed, and unpacked again
C25_Witness ==
    /\ calc.fn = "unpack"
    /\ calc.p = serialize(InfoRequest)
    /\ calc.frame = <<0, 0, DELIMITER>>
    /\ calc.back.payload = <<0>>

\* C26: write_frame writes the segments of a frame in increasing offset
\* order, each non-empty and of at most the packet size, each beginning
\* where the one before it ended, and together they are the frame.
C26_SegmentsAreFrame ==
    calc.fn = "write" =>
        LET w == calc.writes
        IN  /\ Concat([i \in 1..Len(w) |-> w[i].seg]) = calc.frame
            /\ \A i \in 1..Len(w) :
                  /\ w[i].seg # <<>>
                  /\ Len(w[i].seg) <= calc.psize
                  /\ w[i].seg = SubSeq(calc.frame, w[i].off + 1, w[i].off + Len(w[i].seg))
                  /\ w[i].off = (IF i = 1 THEN 0 ELSE w[i - 1].off + Len(w[i - 1].seg))

\* a frame of five bytes written with packet size 2: three segments, the
\* last one short
C26_Witness ==
    /\ calc.fn = "write"
    /\ Len(calc.frame) = 5 /\ calc.psize = 2
    /\ Len(calc.writes) = 3
    /\ Len(calc.writes[3].seg) = 1

(***************************************************************************)
(* SpecCachedInfo: one task calls get_info and upload_program in any       *)
(* order, so that an upload begins with or without a cached InfoResponse;  *)
(* the hub answers the waiting request.                                    *)
(***************************************************************************)
CachedOps == 2
CachedNotify == 3

InitCachedInfo ==
    /\ InitCommon
    /\ hubStream = <<>>
    /\ env = [ menu |-> [t \in Tasks |-> IF t = 1 THEN {"get_info", "upload"} ELSE {}],
               frames |-> "upload",
               cuts |-> FALSE, solicited |-> TRUE, trace |-> {"sent"},
               callers |-> {1}, clients |-> {1},
               reconnect |-> FALSE, faults |-> {},
               ops |-> CachedOps, notifies |-> CachedNotify ]

SpecCachedInfo == InitCachedInfo /\ [][NextUpload]_vars

\* the chunk carried by a TransferChunkRequest, after the running CRC and
\* the two bytes of its length
ChunkOf(m) == SubSeq(m.body, Len(CrcZero) + 3, Len(m.body))

\* C27: upload_program begins with an InfoRequest exactly when no
\* InfoResponse is cached; the response to that request is cached; the
\* chunk size of the upload is the max_chunk_size of the cached
\* InfoResponse, and no TransferChunk carries more bytes; an upload that
\* finds an InfoResponse cached sends no InfoRequest.
C27_InfoOnlyWhenNotCached ==
    [][ /\ ( prog[1].op = "idle" /\ prog'[1].op = "upload" ) =>
              /\ Len(outbox'[1]) = 1
              /\ (outbox'[1][1] = InfoRequest) <=> (info = NoInfo)
              /\ info # NoInfo =>
                    /\ outbox'[1][1].id = StartFileUploadRequestID
                    /\ prog'[1].max_chunk = max_chunk_size(info)
        /\ ( prog[1].op = "upload" /\ prog[1].phase = "info" /\ prog'[1].phase # "info"
             /\ prog'[1].op = "upload" ) =>
              /\ info' = fut[1].res /\ info'.id = InfoResponseID
              /\ prog'[1].max_chunk = max_chunk_size(info')
        /\ ( prog'[1].op = "upload" /\ prog'[1].phase # "info" ) =>
              /\ info' # NoInfo
              /\ prog'[1].max_chunk = max_chunk_size(info')
              /\ \A i \in 2..Len(outbox'[1]) : outbox'[1][i] # InfoRequest
              /\ \A i \in 1..Len(outbox'[1]) :
                    outbox'[1][i].id = TransferChunkRequestID =>
                        Len(ChunkOf(outbox'[1][i])) <= max_chunk_size(info')
      ]_vars

\* the second operation is an upload that found the InfoResponse of
\* get_info cached: it has sent StartFileUpload and a TransferChunk of
\* max_chunk_size bytes, and no InfoRequest
C27_Witness ==
    /\ nops = 2
    /\ prog[1].op = "upload" /\ prog[1].phase = "chunk"
    /\ info = UploadInfo
    /\ Len(outbox[1]) = 2
    /\ outbox[1][1].id = StartFileUploadRequestID
    /\ outbox[1][2].id = TransferChunkRequestID
    /\ Len(ChunkOf(outbox[1][2])) = max_chunk_size(UploadInfo)

\* C28: the upload is stop-and-wait: it sends a further message only when
\* resumed by the response to the request it was waiting for, and when a
\* request of the upload ends in a timeout, a cancellation or a write error
\* the upload ends with that error and sends nothing more.
C28_StopAndWait ==
    [][ /\ ( prog[1].op = "upload" /\ outbox'[1] # outbox[1] ) =>
              /\ pc[1] = "wait"
              /\ fut[1].st = "result" /\ fut[1].res.id = cur[1].exp
              /\ outbox'[1] = Append(outbox[1], cur'[1].msg)
        /\ ( /\ prog[1].op = "upload"
             /\ \/ pc[1] = "wait" /\ fut[1].st \in {"timedout", "cancelled"} /\ pc'[1] # "wait"
                \/ pc[1] = "writing" /\ pc'[1] = "idle" ) =>
              /\ outbox'[1] = outbox[1]
              /\ prog'[1].op = "idle"
              /\ outcome'[1].out \in {"timeout", "cancelled", "writeerror"}
      ]_vars

\* the upload ended by the timeout of its first TransferChunk
C28_Witness ==
    /\ prog[1].op = "idle"
    /\ outcome[1].out = "timeout"
    /\ outcome[1].exp = TransferChunkResponseID
    /\ Len(outbox[1]) = 3
    /\ outbox[1][3].id = TransferChunkRequestID

(***************************************************************************)
(* ServiceResolver.  A UUID is its value and whether it is written in      *)
(* upper case; a characteristic is its UUID and its properties; a service  *)
(* is its UUID and its characteristics in the order of discovery.          *)
(***************************************************************************)
UuidOf(name, up) == [id |-> name, up |-> up]
\* str.lower()
Lower(u) == [u EXCEPT !.up = FALSE]

\* UUID.SERVICE, UUID.RX, UUID.TX of lib/connection.py, written in upper case
UUID_SERVICE == UuidOf("service", TRUE)
UUID_RX == UuidOf("rx", TRUE)
UUID_TX == UuidOf("tx", TRUE)

\* the lists the Hub gives the resolver, lowercased by its constructor
service_uuids == {Lower(UUID_SERVICE)}
rx_uuids == {Lower(UUID_RX)}
tx_uuids == {Lower(UUID_TX)}

Writable(props) == "write" \in props \/ "write-without-response" \in props
Notifiable(props) == "notify" \in props

\* the index at which a loop that returns at the first element satisfying
\* its test returns, S being the indexes that satisfy it; 0 for none
FirstWith(S) ==
    IF S = {} THEN 0 ELSE CHOOSE i \in S : \A j \in S : i <= j

\* the index a loop that assigns every element satisfying its test ends
\* with, S being the indexes that satisfy it; 0 for none
LastWith(S) ==
    IF S = {} THEN 0 ELSE CHOOSE i \in S : \A j \in S : i >= j

HasNotifyAndWrite(s) ==
    /\ \E i \in 1..Len(s.chars) : Notifiable(s.chars[i].props)
    /\ \E i \in 1..Len(s.chars) : Writable(s.chars[i].props)

find_serviceFirstUsable(services) ==
    LET i == FirstWith({k \in 1..Len(services) :
                          \/ Lower(services[k].uuid) \in service_uuids
                          \/ HasNotifyAndWrite(services[k])})
    IN  IF i # 0 THEN [ok |-> TRUE, svc |-> i, err |-> "none"]
        ELSE [ok |-> FALSE, svc |-> 0, err |-> "servicenotfound"]
\* _find_service: the first service with a known UUID, else the first
\* service with a notify-capable and a write-capable characteristic, else
\* RuntimeError("SPIKE service not found"); svc is the index of the service
find_service(services) ==
    LET known == FirstWith({k \in 1..Len(services) : Lower(services[k].uuid) \in service_uuids})
        usable == FirstWith({k \in 1..Len(services) : HasNotifyAndWrite(services[k])})
    IN  IF known # 0 THEN [ok |-> TRUE, svc |-> known, err |-> "none"]
        ELSE IF usable # 0 THEN [ok |-> TRUE, svc |-> usable, err |-> "none"]
        ELSE [ok |-> FALSE, svc |-> 0, err |-> "servicenotfound"]

\* one iteration of the fallback loop of _find_characteristics over ch, the
\* i-th characteristic; rx and tx are indexes, 0 for None
fallback_step(chars, i, st) ==
    LET ch == chars[i]
        tx == IF st.tx = 0 /\ Notifiable(ch.props) THEN i ELSE st.tx
        rx == IF st.rx = 0 /\ Writable(ch.props) /\ (tx = 0 \/ ch.uuid # chars[tx].uuid)
              THEN i ELSE st.rx
    IN  [rx |-> rx, tx |-> tx]

RECURSIVE fallback_from(_, _, _)
fallback_from(chars, i, st) ==
    IF i > Len(chars) THEN st ELSE fallback_from(chars, i + 1, fallback_step(chars, i, st))

\* _find_characteristics: the last characteristics with the RX and the TX
\* UUID; when one is missing the fallback by properties; then the checks
find_characteristics(chars) ==
    LET exact == [rx |-> LastWith({k \in 1..Len(chars) : Lower(chars[k].uuid) \in rx_uuids}),
                  tx |-> LastWith({k \in 1..Len(chars) : Lower(chars[k].uuid) \in tx_uuids})]
        st == IF exact.rx = 0 \/ exact.tx = 0 THEN fallback_from(chars, 1, exact) ELSE exact
    IN  IF st.rx = 0 \/ st.tx = 0 THEN [ok |-> FALSE, rx |-> 0, tx |-> 0, err |-> "rxtxnotfound"]
        ELSE IF chars[st.rx].uuid = chars[st.tx].uuid
             THEN [ok |-> FALSE, rx |-> 0, tx |-> 0, err |-> "samecharacteristic"]
        ELSE [ok |-> TRUE, rx |-> st.rx, tx |-> st.tx, err |-> "none"]

validate_nothing(rx_char, tx_char) == "none"
\* _validate_characteristics: the error it raises, or "none"
validate_characteristics(rx_char, tx_char) ==
    IF ~Writable(rx_char.props) THEN "rxnotwritable"
    ELSE IF ~Notifiable(tx_char.props) THEN "txnotnotifiable"
    ELSE "none"

\* resolve() on the characteristics of the service it selected
resolve_characteristics(chars) ==
    LET f == find_characteristics(chars)
    IN  IF ~f.ok THEN f
        ELSE LET e == validate_characteristics(chars[f.rx], chars[f.tx])
             IN  IF e # "none" THEN [ok |-> FALSE, rx |-> 0, tx |-> 0, err |-> e] ELSE f

(***************************************************************************)
(* SpecResolver: _find_service and the resolution of the characteristics   *)
(* applied to the services and characteristics a device may expose.        *)
(***************************************************************************)
MaxChars == 2
MaxServices == 2

\* characteristics: the RX UUID in both cases, the TX UUID, another UUID;
\* no property, one, or notify with write
CharUuids == {Lower(UUID_RX), UUID_RX, Lower(UUID_TX), UuidOf("other", FALSE)}
CharProps == {{}, {"notify"}, {"write"}, {"write-without-response"}, {"notify", "write"}}
Characteristics == {[uuid |-> u, props |-> p] : u \in CharUuids, p \in CharProps}
CharLists == SeqsUpTo(Characteristics, MaxChars)

\* services: the known UUID in both cases or another one, with no
\* characteristic, only a notify-capable one, only a write-capable one, or both
ServiceUuids == {Lower(UUID_SERVICE), UUID_SERVICE, UuidOf("other", FALSE), UuidOf("battery", FALSE)}
ServiceChars ==
    { <<>>,
      <<[uuid |-> Lower(UUID_TX), props |-> {"notify"}]>>,
      <<[uuid |-> Lower(UUID_RX), props |-> {"write-without-response"}]>>,
      <<[uuid |-> Lower(UUID_TX), props |-> {"notify"}], [uuid |-> Lower(UUID_RX), props |-> {"write"}]>> }
Services == {[uuid |-> u, chars |-> c] : u \in ServiceUuids, c \in ServiceChars}
ServiceLists == SeqsUpTo(Services, MaxServices)

CalcFindService ==
    /\ calc.fn = "none"
    /\ \E l \in ServiceLists :
          calc' = [fn |-> "find_service", services |-> l, res |-> find_service(l)]
    /\ CalcUnchanged

CalcResolveChars ==
    /\ calc.fn = "none"
    /\ \E l \in CharLists :
          calc' = [fn |-> "resolve", chars |-> l, res |-> resolve_characteristics(l)]
    /\ CalcUnchanged

NextResolver == CalcFindService \/ CalcResolveChars

SpecResolver == InitCodec /\ [][NextResolver]_vars

\* C29: the resolution of the characteristics returns only an RX that is
\* writable and a TX that is notify-capable, with different UUIDs;
\* otherwise it raises.
C29_RxTxValid ==
    calc.fn = "resolve" =>
        IF calc.res.ok
        THEN /\ calc.res.rx \in 1..Len(calc.chars) /\ calc.res.tx \in 1..Len(calc.chars)
             /\ Writable(calc.chars[calc.res.rx].props)
             /\ Notifiable(calc.chars[calc.res.tx].props)
             /\ calc.res.rx # calc.res.tx
             /\ calc.chars[calc.res.rx].uuid # calc.chars[calc.res.tx].uuid
        ELSE calc.res.err \in {"rxtxnotfound", "samecharacteristic", "rxnotwritable", "txnotnotifiable"}

\* a TX found by its UUID and an RX found by the fallback on its properties
C29_Witness ==
    /\ calc.fn = "resolve"
    /\ calc.chars = <<[uuid |-> UuidOf("other", FALSE), props |-> {"write-without-response"}],
                      [uuid |-> Lower(UUID_TX), props |-> {"notify"}]>>
    /\ calc.res = [ok |-> TRUE, rx |-> 1, tx |-> 2, err |-> "none"]

\* the service can serve as fallback
Usable(s) == HasNotifyAndWrite(s)
KnownService(s) == Lower(s.uuid) \in service_uuids

\* C30: a service with the known UUID is selected wherever it stands; only
\* when there is none, the first service with a notify-capable and a
\* write-capable characteristic; when there is neither, service-not-found.
C30_ServiceSelection ==
    calc.fn = "find_service" =>
        LET l == calc.services
            known == {i \in 1..Len(l) : KnownService(l[i])}
            usable == {i \in 1..Len(l) : Usable(l[i])}
        IN  IF known # {}
            THEN calc.res.ok /\ calc.res.svc \in known
            ELSE IF usable # {}
            THEN calc.res.ok /\ calc.res.svc \in usable /\ \A i \in usable : calc.res.svc <= i
            ELSE ~calc.res.ok /\ calc.res.err = "servicenotfound"

\* the known service, written in upper case and without characteristics,
\* stands after a usable service and is selected
C30_Witness ==
    /\ calc.fn = "find_service"
    /\ Len(calc.services) = 2
    /\ Usable(calc.services[1]) /\ ~KnownService(calc.services[1])
    /\ calc.services[2] = [uuid |-> UUID_SERVICE, chars |-> <<>>]
    /\ calc.res = [ok |-> TRUE, svc |-> 2, err |-> "none"]

(***************************************************************************)
(* Properties of connect() and of the request path (SpecLink, Spec).       *)
(***************************************************************************)
\* C31: every connect() proceeds in the order open and resolve, subscribe,
\* settle: start_notify is called only once the new client is connected
\* and the characteristics are resolved, the sleep begins only once
\* start_notify has installed the callback on that client, and a client
\* handle is stored only by a connect() at the end of its sleep, which
\* stores the client it subscribed; a GATT write is issued only with a
\* client handle stored and connected, hence never before start_notify has
\* returned on the client written to.
C31_SubscribeBeforeWrite ==
    [][ /\ \A c \in Callers :
             /\ (connPc[c] # "c_open" /\ connPc'[c] = "c_open" =>
                    connPc[c] = "idle" /\ links'[held'[c]] = NoLink)
             /\ (connPc[c] # "c_notify" /\ connPc'[c] = "c_notify" =>
                    /\ connPc[c] = "c_open" /\ held'[c] = held[c]
                    /\ links'[held[c]] = [up |-> TRUE, cb |-> FALSE] /\ resolved')
             /\ (connPc[c] # "c_settle" /\ connPc'[c] = "c_settle" =>
                    /\ connPc[c] = "c_notify" /\ held'[c] = held[c]
                    /\ links'[held[c]].cb /\ notify_started')
        /\ (client' # client /\ client' # NoClient =>
               \E c \in Callers : /\ connPc[c] = "c_settle" /\ connPc'[c] = "idle"
                                   /\ client' = held[c])
        /\ (lastWrite' # lastWrite => client # NoClient /\ linkUp /\ resolved)
      ]_vars

\* a segment was written on a connected, subscribed transport
C31_Witness ==
    /\ lastWrite.t = Caller /\ lastWrite.off = 0
    /\ client # NoClient /\ subscribed /\ notify_started
    /\ connErr = "none" /\ \A c \in Callers : connPc[c] = "idle"

\* C32: when connect() subscribes to TX, the deframer buffer holds no byte
\* and the inbox no message of an earlier connection or connect attempt.
C32_FreshBuffer ==
    [][ (\E c \in Callers : connPc[c] = "c_notify" /\ connPc'[c] = "c_settle")
           => inbuf = <<>> /\ queue = <<>> ]_vars

(***************************************************************************)
(* SpecBluetooth: connect(), start() and disconnect() are called on a      *)
(* lego_spike Bluetooth object by two callers, whose calls overlap at      *)
(* their awaits; the links may drop.                                       *)
(***************************************************************************)
BtOps == 6

BtUnchanged ==
    UNCHANGED <<connVars, dispVars, taskVars, dispatched, rxAll, dispAll, nnotify,
                hubStream, env, calc, recvd, waitfor, getter>>

\* a caller calls connect()
BtConnect ==
    /\ bt.n < BtOps
    /\ \E c \in BtCallers : bt.pc[c] = "idle" /\ bt' = Bluetooth_connect(bt, c)
    /\ BtUnchanged

\* BleakScanner.discover returns or raises in a caller of connect()
BtDiscovered ==
    /\ \E c \in BtCallers :
         /\ bt.pc[c] = "discover"
         /\ \E r \in {"dbuserror", "scanerror", "nodevice"}
                      \cup (IF Bluetooth_free(bt) # {} THEN {"found"} ELSE {}) :
               bt' = Bluetooth_discovered(bt, c, r)
    /\ BtUnchanged

\* client.connect() returns or raises in a caller of connect()
BtConnected ==
    /\ \E c \in BtCallers, r \in {"ok", "down", "raised"} :
          bt.pc[c] = "connect" /\ bt' = Bluetooth_connected(bt, c, r)
    /\ BtUnchanged

\* the client.disconnect() of the except clause returns or raises in a
\* caller of connect()
BtCleaned ==
    /\ \E c \in BtCallers, ok \in BOOLEAN :
          bt.pc[c] = "cleanup" /\ bt' = Bluetooth_cleaned(bt, c, ok)
    /\ BtUnchanged

\* a caller calls start()
BtStart ==
    /\ bt.n < BtOps
    /\ \E c \in BtCallers : bt.pc[c] = "idle" /\ bt' = Bluetooth_start(bt, c)
    /\ BtUnchanged

\* start_notify returns (on a client that is connected) or raises in a
\* caller of start()
BtStarted ==
    /\ \E c \in BtCallers :
         /\ bt.pc[c] = "start_notify"
         /\ \E ok \in (IF bt.links[bt.held[c]].up THEN BOOLEAN ELSE {FALSE}) :
               bt' = Bluetooth_started(bt, c, ok)
    /\ BtUnchanged

\* a caller calls disconnect()
BtDisconnect ==
    /\ bt.n < BtOps
    /\ \E c \in BtCallers : bt.pc[c] = "idle" /\ bt' = Bluetooth_disconnect(bt, c)
    /\ BtUnchanged

\* stop_notify returns or raises in a caller of disconnect()
BtStopped ==
    /\ \E c \in BtCallers, ok \in BOOLEAN :
          bt.pc[c] = "stop_notify" /\ bt' = Bluetooth_stopped(bt, c, ok)
    /\ BtUnchanged

\* client.disconnect() returns or raises in a caller of disconnect()
BtClosed ==
    /\ \E c \in BtCallers, ok \in BOOLEAN :
          bt.pc[c] = "close" /\ bt' = Bluetooth_closed(bt, c, ok)
    /\ BtUnchanged

\* the hub or the radio drops the link of a client
BtLinkDrop ==
    /\ \E k \in BtClients :
          bt.links[k].up /\ bt' = [bt EXCEPT !.links[k] = [up |-> FALSE, subs |-> 0]]
    /\ BtUnchanged

NextBluetooth ==
    \/ BtConnect
    \/ BtDiscovered
    \/ BtConnected
    \/ BtCleaned
    \/ BtStart
    \/ BtStarted
    \/ BtDisconnect
    \/ BtStopped
    \/ BtClosed
    \/ BtLinkDrop

SpecBluetooth == InitCodec /\ [][NextBluetooth]_vars

\* C33: start() called on a connected object either finds the subscription
\* started and changes nothing or calls start_notify, and when start_notify
\* returns the client carries exactly one subscription; start() called on
\* an unconnected object raises Not connected and subscribes nothing.
C33_StartSubscribesOnce ==
    [][ /\ (bt'.n = bt.n + 1 /\ bt'.call = "start" /\ bt'.pc = bt.pc) =>
              /\ bt'.links = bt.links
              /\ IF bt.client # NoClient /\ bt.links[bt.client].up
                 THEN bt'.err = "none" /\ bt.notify_started
                 ELSE bt'.err = "notconnected"
        /\ \A c \in BtCallers :
              (bt.pc[c] = "start_notify" /\ bt'.pc[c] = "idle") =>
                 /\ bt'.err \in {"none", "startfailed"}
                 /\ bt'.err = "none" => bt'.notify_started /\ bt'.links[bt.held[c]].subs = 1
                 /\ bt'.err = "startfailed" => bt'.links = bt.links
      ]_vars

\* C34: whenever no task holds the request lock the request slot is empty,
\* and on every step on which the holder gives the lock up (to nobody or to
\* the next waiter) the slot is empty afterwards.
C34_SlotEmptyWhenLockFree ==
    /\ [](lock = 0 => pending = NoPending)
    /\ [][ (lock # 0 /\ lock' # lock) => pending' = NoPending ]_vars

\* one request has ended with Timeout and the other was cancelled by
\* disconnect(); the lock is free and the slot empty
C34_Witness ==
    /\ lock = 0 /\ pending = NoPending
    /\ \E t \in Tasks, u \in Tasks :
          outcome[t].out = "timeout" /\ outcome[u].out = "cancelled"

\* C35: a waiter is completed at most once, with the first message of the
\* expected ID dispatched since its slot was installed: a completed waiter
\* keeps its result until its request returns it, and while the slot of a
\* completed waiter is still installed every dispatched message, of the
\* expected ID or not, goes to the inbox.
C35_CompletedOnce ==
    [][ \A t \in Tasks :
          /\ (fut[t].st = "pending" /\ fut'[t].st = "result") =>
                /\ nnotify' = nnotify + 1
                /\ pending = [id |-> cur[t].exp, fut |-> t]
                /\ LET hit == FirstWithID(dispatched', pending.id, 1)
                   IN  hit > 0 /\ fut'[t].res = dispatched'[hit]
          /\ (fut[t].st = "result" /\ pc[t] = "wait") =>
                /\ \/ fut'[t] = fut[t] /\ pc'[t] = "wait"
                   \/ /\ pc'[t] = "idle"
                      /\ outcome'[t].out = "response"
                      /\ outcome'[t].res = fut[t].res
                /\ (nnotify' = nnotify + 1 /\ pending # NoPending /\ pending.fut = t) =>
                      /\ pending' = pending
                      /\ queue' = queue \o dispatched'
      ]_vars

\* a first notification completed the waiter with SmallInfo; before the
\* task resumed, a second one brought two more InfoResponses, which are in
\* the inbox
C35_Witness ==
    /\ nnotify = 2
    /\ pending = [id |-> InfoResponseID, fut |-> 1]
    /\ pc[1] = "wait" /\ fut[1] = [st |-> "result", res |-> SmallInfo]
    /\ dispatched = <<Msg(DeviceNotificationID, <<>>), SmallInfo, LargeInfo>>
    /\ queue = dispatched

\* C36: after every on_notify call the deframer buffer holds no delimiter:
\* it is exactly the bytes notified after the last delimiter of the stream,
\* whether the frames before them were valid, malformed or of unknown ID.
C36_BufferAfterLastDelimiter ==
    "stream" \in env.trace =>
        /\ IndexOf(inbuf, DELIMITER, 1) = 0
        /\ inbuf = AfterLastDelimiter(rxAll, Len(rxAll))

\* a frame of unknown ID was dropped; the second notification left the
\* first bytes of a response frame in the buffer
C36_Witness ==
    /\ nnotify = 2
    /\ Len(rxAll) > Len(UnknownFrame)
    /\ SubSeq(rxAll, 1, Len(UnknownFrame)) = UnknownFrame
    /\ dispAll = <<>>
    /\ inbuf # <<>>
    /\ inbuf \o hubStream = Frame(SmallInfo)

(***************************************************************************)
(* SpecEarly: one task calls get_info and then Hub.send_request, whose     *)
(* frame is written in segments of the cached max_packet_size, while the   *)
(* hub sends responses at any moment.                                      *)
(***************************************************************************)
EarlyOps == 2
EarlyNotify == 2

InitEarly ==
    /\ InitCommon
    /\ hubStream = <<>>
    /\ env = [ menu |-> [t \in Tasks |-> IF t = 1 THEN {"get_info", "send_request"} ELSE {}],
               frames |-> "responses",
               cuts |-> FALSE, solicited |-> FALSE, trace |-> {"writes"},
               callers |-> {1}, clients |-> {1},
               reconnect |-> FALSE, faults |-> {},
               ops |-> EarlyOps, notifies |-> EarlyNotify ]

SpecEarly == InitEarly /\ [][NextLink]_vars

\* C37: the first segment of a request frame is written with the request's
\* slot installed and its waiter pending; a message of the expected ID
\* notified while the task is still in write_frame completes the waiter
\* and does not enter the inbox; and the request then returns that very
\* message once its writes are done (it raises only if one of them fails).
C37_SlotBeforeFirstWrite ==
    [][ \A t \in Tasks :
          /\ (lastWrite' # lastWrite /\ lastWrite'.t = t /\ lastWrite'.off = 0
                /\ cur'[t].kind = "request") =>
                /\ pending' = [id |-> cur'[t].exp, fut |-> t]
                /\ fut'[t] = NewFuture
          /\ (nnotify' = nnotify + 1 /\ pc[t] = "writing" /\ cur[t].kind = "request"
                /\ pending = [id |-> cur[t].exp, fut |-> t] /\ fut[t].st = "pending") =>
                LET hit == FirstWithID(dispatched', pending.id, 1)
                IN  hit > 0 =>
                       /\ fut'[t] = [st |-> "result", res |-> dispatched'[hit]]
                       /\ queue' = queue \o LogWithout(dispatched', hit)
                       /\ pc'[t] = "writing"
          /\ (cur[t].kind = "request" /\ pc[t] \in {"writing", "wait"} /\ fut[t].st = "result") =>
                \/ fut'[t] = fut[t] /\ pc'[t] \in {"writing", "wait"}
                \/ /\ pc'[t] = "idle"
                   /\ \/ outcome'[t].out = "response" /\ outcome'[t].res = fut[t].res
                      \/ outcome'[t].out = "writeerror" /\ pc[t] = "writing"
      ]_vars

\* the response was dispatched after the first segment of the request
\* frame and before its last: the waiter is completed, the inbox is empty
C37_Witness ==
    /\ pc[1] = "writing" /\ cur[1].kind = "request" /\ cur[1].exp = ClearSlotResponseID
    /\ lastWrite.t = 1 /\ lastWrite.op = cur[1].op
    /\ lastWrite.off + Len(lastWrite.seg) < lastWrite.len
    /\ fut[1] = [st |-> "result", res |-> StatusResponse(ClearSlotResponseID, 0)]
    /\ queue = <<>>

\* C38: a message that send_request returns has the ID of the response
\* type and was dispatched while the slot of that very request was
\* installed: the request's future is new when its slot is installed, it
\* receives a result only from a notification that finds that slot
\* installed, the result being a message of that notification with the
\* expected ID, and the request returns the result of its future.
C38_ReturnsOwnResponse ==
    [][ \A t \in Tasks :
          /\ (pending' = [id |-> cur'[t].exp, fut |-> t] /\ pending # pending') =>
                fut'[t] = NewFuture
          /\ (fut'[t].st = "result" /\ fut'[t] # fut[t]) =>
                /\ fut[t] = NewFuture
                /\ nnotify' = nnotify + 1
                /\ pending = [id |-> cur[t].exp, fut |-> t]
                /\ pc[t] \in {"writing", "wait"}
                /\ \E i \in 1..Len(dispatched') : dispatched'[i] = fut'[t].res
                /\ fut'[t].res.id = cur[t].exp
          /\ (pc[t] # "idle" /\ pc'[t] = "idle" /\ outcome'[t].out = "response") =>
                /\ fut[t].st = "result"
                /\ outcome'[t].res = fut[t].res
                /\ outcome'[t].res.id = cur[t].exp
                /\ outcome'[t].exp = cur[t].exp
      ]_vars

\* the first get_info timed out; the InfoResponse that came afterwards,
\* while the slot of the second get_info was installed, is what the second
\* returned
C38_Witness ==
    /\ outcome[1] = [out |-> "timeout", res |-> NoMsg, exp |-> InfoResponseID]
    /\ outcome[2] = [out |-> "response", res |-> SmallInfo, exp |-> InfoResponseID]
    /\ nnotify = 1

(***************************************************************************)
(* SpecShared: one task uploads a program while another calls clear_slot;  *)
(* the hub answers the requests of the upload.                             *)
(***************************************************************************)
SharedOps == 2
SharedNotify == 3

InitShared ==
    /\ InitCommon
    /\ hubStream = <<>>
    /\ env = [ menu |-> [t \in Tasks |-> IF t = 1 THEN {"upload"} ELSE {"clear_slot"}],
               frames |-> "upload",
               cuts |-> FALSE, solicited |-> TRUE, trace |-> {"writes", "sent"},
               callers |-> {1}, clients |-> {1},
               reconnect |-> FALSE, faults |-> {},
               ops |-> SharedOps, notifies |-> SharedNotify ]

\* the transport is connected and stays so
NextShared ==
    \/ TaskSteps
    \/ \E t \in Tasks : LockGranted(t)
    \/ OnNotify
    \/ ConnectSteps

SpecShared == InitShared /\ [][NextShared]_vars

\* C39: the request lock is held per request: when a request of a running
\* upload ends while another task waits for the lock, the lock passes to
\* that task, and the upload, if it goes on, queues for the lock again
\* with its next message unwritten; and a task that is in no operation
\* does not hold the lock.
C39_LockPerRequest ==
    /\ [](\A t \in Tasks : pc[t] = "idle" => lock # t)
    /\ [][ \A t \in Tasks :
             ( /\ prog[t].op = "upload" /\ pc[t] \in {"wait", "writing"} /\ lock = t
               /\ waiters # <<>>
               /\ pc'[t] \notin {"wait", "writing"} ) =>
                 /\ lock' = Head(waiters) /\ lock' # t
                 /\ outbox'[t] = outbox[t]
                 /\ lastWrite' = lastWrite
                 /\ prog'[t].op = "upload" => pc'[t] = "lockwait" /\ waiters' = Append(Tail(waiters), t)
         ]_vars

\* the frame of clear_slot was written after the StartFileUpload of the
\* running upload was answered and before its first TransferChunk, for
\* which the upload is waiting for the lock
C39_Witness ==
    /\ prog[1].op = "upload" /\ prog[1].phase = "chunk" /\ pc[1] = "lockwait"
    /\ Len(outbox[1]) = 2 /\ outbox[1][2].id = StartFileUploadRequestID
    /\ lock = 2 /\ pc[2] = "writing"
    /\ lastWrite.t = 2 /\ lastWrite.seg = Frame(ClearSlotRequest(Slot))

(***************************************************************************)
(* SpecRecv: a caller waits in recv() without timeout while the hub sends  *)
(* messages and connect() and disconnect() are called.                     *)
(***************************************************************************)
RecvNotify == 2

InitRecv ==
    /\ InitCommon
    /\ hubStream = <<>>
    /\ env = [ menu |-> [t \in Tasks |-> {}],
               frames |-> "responses",
               cuts |-> FALSE, solicited |-> FALSE, trace |-> {},
               callers |-> {1}, clients |-> {1},
               reconnect |-> FALSE, faults |-> {"close"},
               ops |-> 0, notifies |-> RecvNotify ]

NextRecv == OnNotify \/ RecvSteps \/ LinkSteps

SpecRecv == InitRecv /\ [][NextRecv]_vars

\* C40: disconnect() does not wake a caller blocked in recv() without
\* timeout: the caller leaves the blocked state only when a notification
\* enqueues a message, the end of a disconnect leaves a suspended caller
\* suspended with nothing returned to it, a caller that resumes after the
\* inbox was emptied blocks again, and recv() ends only by returning the
\* oldest message of the inbox.
C40_DisconnectKeepsRecvBlocked ==
    [][ waitfor.st # "running" =>
        /\ (getter = "blocked" /\ getter' # "blocked") =>
              /\ nnotify' = nnotify + 1
              /\ getter' = "woken"
              /\ Len(queue') > Len(queue)
        /\ (getter # "idle" /\ \E c \in Callers : connPc[c] # "idle" /\ connPc'[c] = "idle") =>
              /\ getter' = getter
              /\ recvd' = recvd
        /\ (getter = "woken" /\ getter' # "woken") =>
              IF queue = <<>> THEN getter' = "blocked" /\ recvd' = recvd
              ELSE getter' = "idle"
        /\ (getter # "idle" /\ getter' = "idle") =>
              /\ queue # <<>>
              /\ recvd' = Append(recvd, Head(queue))
              /\ queue' = Tail(queue)
      ]_vars

\* the caller was woken by a message, disconnect() emptied the inbox before
\* it ran, and it is blocked again on the empty inbox with nothing returned
C40_Witness ==
    /\ getter = "blocked" /\ waitfor.st = "none"
    /\ client = NoClient /\ ~notify_started /\ resolved
    /\ nnotify = RecvNotify /\ dispatched # <<>>
    /\ queue = <<>> /\ recvd = <<>>
=============================================================================
